---- MODULE Spec2Model ----
(***************************************************************************)
(* Signum DID resolver: the identifier parser (DidParser), the five        *)
(* per-type DID document builders and the resolution state machine         *)
(* (SignumDidResolver.resolve) with the ledger client as environment.      *)
(*                                                                         *)
(* Text is modelled as sequences of one-character strings, so that the     *)
(* regular expressions, trimming, substring tests and template literals of *)
(* the source are computed rather than assumed.  Enumerated literals of    *)
(* the TypeScript types (error codes, context URIs, the content type) are  *)
(* kept as atomic strings: the code only compares them for equality.       *)
(***************************************************************************)
EXTENDS Integers, Sequences, FiniteSets, TLC

VARIABLES pc, args, did, parsedDid, request, reply, outcome, steps, http, calls

vars == <<pc, args, did, parsedDid, request, reply, outcome, steps, http, calls>>

(***************************************************************************)
(* Characters and the string primitives of the JavaScript runtime          *)
(***************************************************************************)
Digit == {"0","1","2","3","4","5","6","7","8","9"}

UpperChars == <<"A","B","C","D","E","F","G","H","I","J","K","L","M","N","O","P","Q","R","S","T","U","V","W","X","Y","Z">>

LowerChars == <<"a","b","c","d","e","f","g","h","i","j","k","l","m","n","o","p","q","r","s","t","u","v","w","x","y","z">>

Upper == {UpperChars[i] : i \in 1..Len(UpperChars)}

Lower == {LowerChars[i] : i \in 1..Len(LowerChars)}

\* \w of a JavaScript regular expression: [A-Za-z0-9_]
WordChar == Digit \cup Upper \cup Lower \cup {"_"}

\* the white space String.prototype.trim removes (those the inputs use)
WhiteSpace == {" ", "\t", "\n"}

\* characters the regular expression dot does not match
LineTerminator == {"\n"}

Rep(c, n) == [i \in 1..n |-> c]

SetMin(S) == CHOOSE m \in S : \A k \in S : m <= k

SetMax(S) == CHOOSE m \in S : \A k \in S : m >= k

AllIn(s, chars) == \A i \in 1..Len(s) : s[i] \in chars

\* String.prototype.trim
trim(s) ==
  LET keep == {i \in 1..Len(s) : s[i] \notin WhiteSpace}
  IN IF keep = {} THEN <<>> ELSE SubSeq(s, SetMin(keep), SetMax(keep))

\* String.prototype.startsWith
startsWith(s, p) == Len(s) >= Len(p) /\ SubSeq(s, 1, Len(p)) = p

\* the rest of s after its first n characters
Drop(s, n) == SubSeq(s, n + 1, Len(s))

\* String.prototype.includes (case-sensitive substring test)
includes(s, p) == \E i \in 0..(Len(s) - Len(p)) : SubSeq(s, i + 1, i + Len(p)) = p

\* String.prototype.toLowerCase on one character and on a string
LowerOf(c) ==
  IF c \in Upper THEN LowerChars[CHOOSE i \in 1..Len(UpperChars) : UpperChars[i] = c] ELSE c

toLowerCase(s) == [i \in 1..Len(s) |-> LowerOf(s[i])]

\* positions of the colons of s, and String.prototype.split(":")
ColonAt(s) == {i \in 1..Len(s) : s[i] = ":"}

RECURSIVE split(_)
split(s) ==
  IF ColonAt(s) = {} THEN <<s>>
  ELSE LET i == SetMin(ColonAt(s))
       IN <<SubSeq(s, 1, i - 1)>> \o split(Drop(s, i))

(***************************************************************************)
(* DidParser (src/src/parser/did-parser.ts)                                *)
(***************************************************************************)
\* the alternatives of the network and type groups of DID_REGEX, in order
RegexNetworks == << <<"m","a","i","n","n","e","t">>, <<"t","e","s","t","n","e","t">>, <<"s","t","a","g","e","n","e","t">> >>

RegexTypes == << <<"t","x">>, <<"a","c","c">>, <<"a","l","i","a","s">>, <<"c","o","n","t","r","a","c","t">>, <<"t","o","k","e","n">> >>

VALID_NETWORKS == { <<"m","a","i","n","n","e","t">>, <<"t","e","s","t","n","e","t">> }

VALID_TYPES == { <<"t","x">>, <<"a","c","c">>, <<"a","l","i","a","s">>, <<"c","o","n","t","r","a","c","t">>, <<"t","o","k","e","n">> }

NoMatch == [matched |-> FALSE, network |-> <<>>, type |-> <<>>, identifier |-> <<>>]

\* (?<type>tx|acc|alias|contract|token):(?<identifier>.+)$ matched at the
\* start of s, the network group having captured net (<<>> when it did not
\* participate)
MatchTypeAndIdentifier(s, net) ==
  LET hits == {k \in 1..Len(RegexTypes) : startsWith(s, RegexTypes[k] \o <<":">>)}
  IN IF hits = {} THEN NoMatch
     ELSE LET t == RegexTypes[SetMin(hits)]
              rest == Drop(s, Len(t) + 1)
          IN IF Len(rest) >= 1 /\ \A i \in 1..Len(rest) : rest[i] \notin LineTerminator
             THEN [matched |-> TRUE, network |-> net, type |-> t, identifier |-> rest]
             ELSE NoMatch

\* trimmedDid.match(DID_REGEX): the optional network group is tried first
\* and given up (backtracking) when the rest does not match after it
MatchDidRegex(s) ==
  LET prefix == <<"d","i","d",":","s","i","g","n","u","m",":">>
  IN IF ~startsWith(s, prefix) THEN NoMatch
     ELSE LET body == Drop(s, Len(prefix))
              nets == {k \in 1..Len(RegexNetworks) : startsWith(body, RegexNetworks[k] \o <<":">>)}
              withNet == IF nets = {} THEN NoMatch
                         ELSE LET n == RegexNetworks[SetMin(nets)]
                              IN MatchTypeAndIdentifier(Drop(body, Len(n) + 1), n)
          IN IF withNet.matched THEN withNet ELSE MatchTypeAndIdentifier(body, <<>>)

MinIdDigits == 10

MaxIdDigits == 24

MinNumericDigits == 18

MaxNumericDigits == 23

MaxTldLength == 40

MaxAliasNameLength == 100

\* /^\d{lo,hi}$/.test(s)
IsDigits(s, lo, hi) == Len(s) >= lo /\ Len(s) <= hi /\ AllIn(s, Digit)

\* /^\w{lo,hi}$/.test(s)
IsWord(s, lo, hi) == Len(s) >= lo /\ Len(s) <= hi /\ AllIn(s, WordChar)

\* /^T?S-[A-Z0-9]{4}-[A-Z0-9]{4}-[A-Z0-9]{4}-[A-Z0-9]{5}$/.test(s)
IsRSAddressPattern(s) ==
  LET b == IF startsWith(s, <<"T">>) THEN Drop(s, 1) ELSE s
      seg(from, n) == AllIn(SubSeq(b, from, from + n - 1), Upper \cup Digit)
  IN /\ Len(b) = 22
     /\ SubSeq(b, 1, 2) = <<"S","-">>
     /\ seg(3, 4) /\ b[7] = "-"
     /\ seg(8, 4) /\ b[12] = "-"
     /\ seg(13, 4) /\ b[17] = "-"
     /\ seg(18, 5)

\* the alias pattern with a tld as long as a name
IsAliasNamePattern_tld100(s) ==
  \/ IsWord(s, 1, MaxAliasNameLength)
  \/ \E i \in 2..(Len(s) - 1) :
       /\ s[i] = ":"
       /\ IsWord(SubSeq(s, 1, i - 1), 1, MaxAliasNameLength)
       /\ IsWord(Drop(s, i), 1, MaxAliasNameLength)

\* /^(\w{1,40}:)?\w{1,100}$/.test(s)
IsAliasNamePattern(s) ==
  \/ IsWord(s, 1, MaxAliasNameLength)
  \/ \E i \in 2..(Len(s) - 1) :
       /\ s[i] = ":"
       /\ IsWord(SubSeq(s, 1, i - 1), 1, MaxTldLength)
       /\ IsWord(Drop(s, i), 1, MaxAliasNameLength)

\* the regular expressions validateIdentifier tests the trimmed identifier
\* against, per type
MatchesGrammar(type, s) ==
  CASE type \in { <<"t","x">>, <<"c","o","n","t","r","a","c","t">>, <<"t","o","k","e","n">> } -> IsDigits(s, MinIdDigits, MaxIdDigits)
    [] type = <<"a","c","c">> -> IsDigits(s, MinNumericDigits, MaxNumericDigits) \/ IsRSAddressPattern(s)
    [] type = <<"a","l","i","a","s">> -> IsDigits(s, MinNumericDigits, MaxNumericDigits) \/ IsAliasNamePattern(s)
    [] OTHER -> FALSE

\* the message validateIdentifier throws for a type
IdentifierErrorMessage(type) ==
  CASE type \in { <<"t","x">>, <<"c","o","n","t","r","a","c","t">>, <<"t","o","k","e","n">> } ->
         <<"I","n","v","a","l","i","d"," ">> \o type \o <<" ","i","d","e","n","t","i","f","i","e","r","."," ","M","u","s","t"," ","b","e"," ","1","8","-","2","3"," ","d","i","g","i","t"," ","n","u","m","e","r","i","c"," ","I","D">>
    [] type = <<"a","c","c">> ->
         <<"I","n","v","a","l","i","d"," ","a","c","c","o","u","n","t"," ","i","d","e","n","t","i","f","i","e","r","."," ","M","u","s","t"," ","b","e"," ","n","u","m","e","r","i","c"," ","I","D"," ","o","r"," ","R","S","-","a","d","d","r","e","s","s"," ","(","S","-","X","X","X","X","-","X","X","X","X","-","X","X","X","X","-","X","X","X","X","X",")">>
    [] type = <<"a","l","i","a","s">> ->
         <<"I","n","v","a","l","i","d"," ","a","l","i","a","s"," ","i","d","e","n","t","i","f","i","e","r","."," ","M","u","s","t"," ","b","e"," ","n","u","m","e","r","i","c"," ","I","D"," ","o","r"," ","[","t","l","d",":","]","n","a","m","e"," ","f","o","r","m","a","t">>
    [] OTHER -> <<"U","n","k","n","o","w","n"," ","t","y","p","e",":"," ">> \o type

\* validateIdentifier: <<>> when it returns, the DidParseError message when
\* it throws
validateIdentifier(type, identifier) ==
  IF MatchesGrammar(type, trim(identifier)) THEN <<>> ELSE IdentifierErrorMessage(type)

ParseFailure(message) ==
  [ok |-> FALSE, message |-> message, did |-> <<>>, network |-> <<>>,
   type |-> <<>>, identifier |-> <<>>]

\* DidParser.parse: the ParsedDid (ok) or the message of the DidParseError
parse(raw) ==
  LET trimmedDid == trim(raw)
      m == MatchDidRegex(trimmedDid)
      parsedNetwork == IF m.network = <<>> THEN <<"m","a","i","n","n","e","t">> ELSE m.network
  IN IF trimmedDid = <<>> THEN ParseFailure(<<"D","I","D"," ","m","u","s","t"," ","b","e"," ","a"," ","n","o","n","-","e","m","p","t","y"," ","s","t","r","i","n","g">>)
     ELSE IF ~startsWith(trimmedDid, <<"d","i","d",":">>) THEN ParseFailure(<<"D","I","D"," ","m","u","s","t"," ","s","t","a","r","t"," ","w","i","t","h"," ","\"","d","i","d",":","\"">>)
     ELSE IF ~m.matched
       THEN ParseFailure(<<"I","n","v","a","l","i","d"," ","S","i","g","n","u","m"," ","D","I","D"," ","f","o","r","m","a","t","."," ","E","x","p","e","c","t","e","d",":"," ","d","i","d",":","s","i","g","n","u","m",":","[","n","e","t","w","o","r","k","]",":","[","t","y","p","e","]",":","[","i","d","e","n","t","i","f","i","e","r","]">>)
     ELSE IF parsedNetwork \notin VALID_NETWORKS
       THEN ParseFailure(<<"I","n","v","a","l","i","d"," ","n","e","t","w","o","r","k",":"," ">> \o parsedNetwork)
     ELSE IF m.type \notin VALID_TYPES
       THEN ParseFailure(<<"I","n","v","a","l","i","d"," ","t","y","p","e",":"," ">> \o m.type)
     ELSE IF trim(m.identifier) = <<>>
       THEN ParseFailure(<<"I","d","e","n","t","i","f","i","e","r"," ","c","a","n","n","o","t"," ","b","e"," ","e","m","p","t","y">>)
     ELSE IF validateIdentifier(m.type, m.identifier) # <<>>
       THEN ParseFailure(validateIdentifier(m.type, m.identifier))
     ELSE [ok |-> TRUE, message |-> <<>>, did |-> trimmedDid, network |-> parsedNetwork,
           type |-> m.type, identifier |-> trim(m.identifier)]

\* build, forgetting the network segment
build_dropsNetwork(type, identifier, network) ==
  <<"d","i","d",":","s","i","g","n","u","m",":">> \o type \o <<":">> \o identifier

\* build, writing the network segment for mainnet too
build_alwaysNetwork(type, identifier, network) ==
  <<"d","i","d",":","s","i","g","n","u","m",":">> \o network \o <<":">> \o type \o <<":">> \o identifier

\* DidParser.build
build(type, identifier, network) ==
  IF network = <<"m","a","i","n","n","e","t">>
  THEN <<"d","i","d",":","s","i","g","n","u","m",":">> \o type \o <<":">> \o identifier
  ELSE <<"d","i","d",":","s","i","g","n","u","m",":">> \o network \o <<":">> \o type \o <<":">> \o identifier

(***************************************************************************)
(* Values shared by the builders and the resolver                          *)
(***************************************************************************)
\* a property that is absent from an object reads as undefined; a template
\* literal prints undefined as the text "undefined"
Has(r, f) == f \in DOMAIN r

Tpl(r, f) == IF Has(r, f) THEN r[f] ELSE <<"u","n","d","e","f","i","n","e","d">>

\* copy property from of r to property to, leaving it absent when r lacks it
Pick(r, from, to) == IF Has(r, from) THEN to :> r[from] ELSE <<>>

\* truthiness of an optional string property
Truthy(r, f) == Has(r, f) /\ r[f] # <<>>

\* a thrown value: an Error with a message, or any other value (whose text,
\* if it has one, is kept in message)
Error(message) == [isError |-> TRUE, message |-> message]

NonError(message) == [isError |-> FALSE, message |-> message]

\* how an async function settles
Return(result) == [kind |-> "return", result |-> result]

Throw(exc) == [kind |-> "throw", exc |-> exc]

Null == [null |-> TRUE]

EmptyObject == [x \in {} |-> TRUE]

DID_CONTEXT == "https://www.w3.org/ns/did/v1"

ED25519_CONTEXT == "https://w3id.org/security/suites/ed25519-2020/v1"

\* a network prefix that is always empty
NetworkPrefix_none(parsed) == <<>>

\* `${network === "mainnet" ? "" : network + ":"}` of every builder
NetworkPrefix(parsed) ==
  IF parsed.network = <<"m","a","i","n","n","e","t">> THEN <<>> ELSE parsed.network \o <<":">>

(***************************************************************************)
(* Builders (src/src/builders, transaction-builder, alias-builder)         *)
(***************************************************************************)
\* BaseDidDocumentBuilder.createBaseDocument
createBaseDocument(parsed) ==
  [context |-> <<DID_CONTEXT>>, id |-> parsed.did]

\* BaseDidDocumentBuilder.createVerificationMethod
createVerificationMethod(id, controller, publicKeyMultibase) ==
  [id |-> id, type |-> "Ed25519VerificationKey2020", controller |-> controller,
   publicKeyMultibase |-> publicKeyMultibase]

Built(doc, metadata) == [ok |-> TRUE, didDocument |-> doc, didDocumentMetadata |-> metadata]

BuildThrows(exc) == [ok |-> FALSE, exc |-> exc]

\* ChainTime.fromChainTimestamp(t).getDate().toISOString(): the date text of
\* chain time t; toISOString throws a RangeError on the invalid date an
\* undefined timestamp gives
HasValidTime(data, f) == Has(data, f)

InvalidTime == Error(<<"I","n","v","a","l","i","d"," ","t","i","m","e"," ","v","a","l","u","e">>)

IsoOfChainTime(t) == [chainTimestamp |-> t]

\* calling toLowerCase on undefined
NoToLowerCase == Error(<<"C","a","n","n","o","t"," ","r","e","a","d"," ","p","r","o","p","e","r","t","i","e","s"," ","o","f"," ","u","n","d","e","f","i","n","e","d"," ","(","r","e","a","d","i","n","g"," ","'","t","o","L","o","w","e","r","C","a","s","e","'",")">>)

\* TransactionDidDocumentBuilder.build
TransactionDidDocumentBuilder_build(parsed, txData) ==
  LET controllerDid == <<"d","i","d",":","s","i","g","n","u","m",":">> \o NetworkPrefix(parsed) \o <<"a","c","c",":">> \o Tpl(txData, "senderRS")
      verificationMethodId == parsed.did \o <<"#","c","r","e","a","t","o","r">>
      doc == [context |-> <<DID_CONTEXT, ED25519_CONTEXT>>,
              id |-> createBaseDocument(parsed).id,
              controller |-> controllerDid,
              verificationMethod |->
                <<createVerificationMethod(verificationMethodId, controllerDid,
                                           <<"f">> \o toLowerCase(txData.senderPublicKey))>>]
             @@ (IF txData.src44.present THEN [src44 |-> txData.src44.raw] ELSE <<>>)
      metadata == [created |-> IsoOfChainTime(txData.blockTimestamp),
                   confirmations |-> txData.confirmations,
                   immutable |-> TRUE]
                  @@ Pick(txData, "blockHeight", "blockHeight")
  IN IF ~Has(txData, "senderPublicKey") THEN BuildThrows(NoToLowerCase)
     ELSE IF ~HasValidTime(txData, "blockTimestamp") THEN BuildThrows(InvalidTime)
     ELSE Built(doc, metadata)

\* AccountDidDocumentBuilder.build, always declaring the security suite
AccountDidDocumentBuilder_build_suiteAlways(parsed, accountData) ==
  LET isRSAddress == \/ startsWith(parsed.identifier, <<"S","-">>)
                     \/ startsWith(parsed.identifier, <<"T","S","-">>)
      numericDid == <<"d","i","d",":","s","i","g","n","u","m",":">> \o NetworkPrefix(parsed) \o <<"a","c","c",":">> \o Tpl(accountData, "accountId")
      rsDid == <<"d","i","d",":","s","i","g","n","u","m",":">> \o NetworkPrefix(parsed) \o <<"a","c","c",":">> \o Tpl(accountData, "accountRS")
      verificationMethodId == parsed.did \o <<"#","k","e","y","-","1">>
      keyed == Truthy(accountData, "publicKey")
      doc == [context |-> <<DID_CONTEXT, ED25519_CONTEXT>>,
              id |-> createBaseDocument(parsed).id,
              alsoKnownAs |-> IF isRSAddress THEN <<numericDid>> ELSE <<rsDid>>]
             @@ (IF keyed
                 THEN [verificationMethod |->
                         <<createVerificationMethod(verificationMethodId, parsed.did,
                                                    <<"f">> \o toLowerCase(accountData.publicKey))>>,
                       authentication |-> <<verificationMethodId>>]
                 ELSE <<>>)
             @@ (IF accountData.src44.present THEN [src44 |-> accountData.src44.raw] ELSE <<>>)
      metadata == [immutable |-> FALSE]
  IN Built(doc, metadata)

\* AccountDidDocumentBuilder.build
AccountDidDocumentBuilder_build(parsed, accountData) ==
  LET isRSAddress == \/ startsWith(parsed.identifier, <<"S","-">>)
                     \/ startsWith(parsed.identifier, <<"T","S","-">>)
      numericDid == <<"d","i","d",":","s","i","g","n","u","m",":">> \o NetworkPrefix(parsed) \o <<"a","c","c",":">> \o Tpl(accountData, "accountId")
      rsDid == <<"d","i","d",":","s","i","g","n","u","m",":">> \o NetworkPrefix(parsed) \o <<"a","c","c",":">> \o Tpl(accountData, "accountRS")
      verificationMethodId == parsed.did \o <<"#","k","e","y","-","1">>
      keyed == Truthy(accountData, "publicKey")
      doc == [context |-> IF keyed THEN <<DID_CONTEXT, ED25519_CONTEXT>>
                          ELSE createBaseDocument(parsed).context,
              id |-> createBaseDocument(parsed).id,
              alsoKnownAs |-> IF isRSAddress THEN <<numericDid>> ELSE <<rsDid>>]
             @@ (IF keyed
                 THEN [verificationMethod |->
                         <<createVerificationMethod(verificationMethodId, parsed.did,
                                                    <<"f">> \o toLowerCase(accountData.publicKey))>>,
                       authentication |-> <<verificationMethodId>>]
                 ELSE <<>>)
             @@ (IF accountData.src44.present THEN [src44 |-> accountData.src44.raw] ELSE <<>>)
      metadata == [immutable |-> FALSE]
  IN Built(doc, metadata)

\* AliasDidDocumentBuilder.build, naming the alias without its tld
AliasDidDocumentBuilder_build_nameOnly(parsed, aliasData) ==
  LET tld == IF Truthy(aliasData, "tld") THEN aliasData.tld ELSE <<"s","i","g","n","u","m">>
      fullAliasName == tld \o <<":">> \o Tpl(aliasData, "aliasName")
      isNumericIdentifier == IsDigits(parsed.identifier, MinNumericDigits, MaxNumericDigits)
      networkPrefix == NetworkPrefix(parsed)
      nameDid == <<"d","i","d",":","s","i","g","n","u","m",":">> \o networkPrefix \o <<"a","l","i","a","s",":">> \o Tpl(aliasData, "aliasName")
      numericDid == <<"d","i","d",":","s","i","g","n","u","m",":">> \o networkPrefix \o <<"a","l","i","a","s",":">> \o Tpl(aliasData, "aliasId")
      controllerDid == <<"d","i","d",":","s","i","g","n","u","m",":">> \o networkPrefix \o <<"a","c","c",":">> \o Tpl(aliasData, "accountRS")
      doc == [context |-> createBaseDocument(parsed).context,
              id |-> createBaseDocument(parsed).id,
              alsoKnownAs |-> IF isNumericIdentifier THEN <<nameDid>> ELSE <<numericDid>>,
              controller |-> controllerDid]
             @@ (IF aliasData.src44.present THEN [src44 |-> aliasData.src44.raw] ELSE <<>>)
      metadata == [created |-> IsoOfChainTime(aliasData.timestamp), immutable |-> FALSE]
  IN IF ~HasValidTime(aliasData, "timestamp") THEN BuildThrows(InvalidTime)
     ELSE Built(doc, metadata)

\* AliasDidDocumentBuilder.build
AliasDidDocumentBuilder_build(parsed, aliasData) ==
  LET tld == IF Truthy(aliasData, "tld") THEN aliasData.tld ELSE <<"s","i","g","n","u","m">>
      fullAliasName == tld \o <<":">> \o Tpl(aliasData, "aliasName")
      isNumericIdentifier == IsDigits(parsed.identifier, MinNumericDigits, MaxNumericDigits)
      networkPrefix == NetworkPrefix(parsed)
      nameDid == <<"d","i","d",":","s","i","g","n","u","m",":">> \o networkPrefix \o <<"a","l","i","a","s",":">> \o fullAliasName
      numericDid == <<"d","i","d",":","s","i","g","n","u","m",":">> \o networkPrefix \o <<"a","l","i","a","s",":">> \o Tpl(aliasData, "aliasId")
      controllerDid == <<"d","i","d",":","s","i","g","n","u","m",":">> \o networkPrefix \o <<"a","c","c",":">> \o Tpl(aliasData, "accountRS")
      doc == [context |-> createBaseDocument(parsed).context,
              id |-> createBaseDocument(parsed).id,
              alsoKnownAs |-> IF isNumericIdentifier THEN <<nameDid>> ELSE <<numericDid>>,
              controller |-> controllerDid]
             @@ (IF aliasData.src44.present THEN [src44 |-> aliasData.src44.raw] ELSE <<>>)
      metadata == [created |-> IsoOfChainTime(aliasData.timestamp), immutable |-> FALSE]
  IN IF ~HasValidTime(aliasData, "timestamp") THEN BuildThrows(InvalidTime)
     ELSE Built(doc, metadata)

\* ContractDidDocumentBuilder.build, marking the contract immutable
ContractDidDocumentBuilder_build_immutable(parsed, contractData) ==
  LET doc == [context |-> createBaseDocument(parsed).context,
              id |-> createBaseDocument(parsed).id,
              controller |-> <<"d","i","d",":","s","i","g","n","u","m",":">> \o NetworkPrefix(parsed) \o <<"a","c","c",":">>
                               \o Tpl(contractData, "creatorRS"),
              alsoKnownAs |-> << <<"d","i","d",":","s","i","g","n","u","m",":">> \o NetworkPrefix(parsed) \o <<"c","o","n","t","r","a","c","t",":">>
                                   \o Tpl(contractData, "atRS") >>]
             @@ (IF contractData.src44.present THEN [src44 |-> contractData.src44.raw] ELSE <<>>)
      metadata == [created |-> IsoOfChainTime(contractData.creationBlockTimestamp),
                   immutable |-> TRUE]
                  @@ Pick(contractData, "creationBlock", "blockHeight")
  IN IF ~HasValidTime(contractData, "creationBlockTimestamp") THEN BuildThrows(InvalidTime)
     ELSE Built(doc, metadata)

\* ContractDidDocumentBuilder.build
ContractDidDocumentBuilder_build(parsed, contractData) ==
  LET doc == [context |-> createBaseDocument(parsed).context,
              id |-> createBaseDocument(parsed).id,
              controller |-> <<"d","i","d",":","s","i","g","n","u","m",":">> \o NetworkPrefix(parsed) \o <<"a","c","c",":">>
                               \o Tpl(contractData, "creatorRS"),
              alsoKnownAs |-> << <<"d","i","d",":","s","i","g","n","u","m",":">> \o NetworkPrefix(parsed) \o <<"c","o","n","t","r","a","c","t",":">>
                                   \o Tpl(contractData, "atRS") >>]
             @@ (IF contractData.src44.present THEN [src44 |-> contractData.src44.raw] ELSE <<>>)
      metadata == [created |-> IsoOfChainTime(contractData.creationBlockTimestamp),
                   immutable |-> FALSE]
                  @@ Pick(contractData, "creationBlock", "blockHeight")
  IN IF ~HasValidTime(contractData, "creationBlockTimestamp") THEN BuildThrows(InvalidTime)
     ELSE Built(doc, metadata)

\* TokenDidDocumentBuilder.build
TokenDidDocumentBuilder_build(parsed, tokenData) ==
  LET doc == [context |-> createBaseDocument(parsed).context,
              id |-> createBaseDocument(parsed).id,
              controller |-> <<"d","i","d",":","s","i","g","n","u","m",":">> \o NetworkPrefix(parsed) \o <<"a","c","c",":">>
                               \o Tpl(tokenData, "accountRS"),
              service |-> << [id |-> parsed.did \o <<"#","t","o","k","e","n","-","i","n","f","o">>,
                              type |-> "TokenService",
                              serviceEndpoint |->
                                Pick(tokenData, "name", "name")
                                @@ Pick(tokenData, "decimals", "decimals")
                                @@ Pick(tokenData, "quantityQNT", "totalSupply")] >>]
             @@ (IF tokenData.src44.present THEN [src44 |-> tokenData.src44.raw] ELSE <<>>)
      metadata == [created |-> IsoOfChainTime(tokenData.timestamp),
                   blockHeight |-> tokenData.height,
                   immutable |-> TRUE]
  IN IF ~HasValidTime(tokenData, "timestamp") THEN BuildThrows(InvalidTime)
     ELSE Built(doc, metadata)

(***************************************************************************)
(* The ledger client (external): what a lookup can answer                  *)
(***************************************************************************)
KnownAccountId == <<"1","6","4","5","7","7","4","8","5","7","2","2","9","9","0","6","2","8","2","5">>

KnownAccountRS == <<"S","-","9","K","9","L","-","4","C","B","5","-","8","8","Y","5","-","F","5","G","4","Z">>

KnownAliasId == <<"1","2","3","4","5","6","7","8","9","0","1","2","3","4","5","6","7","8","9","0">>

KnownContractRS == <<"S","-","A","A","A","A","-","B","B","B","B","-","C","C","C","C","-","D","D","D","D","D">>

PublicKeyHex == <<"A","1","B","2","C","3","D","4">>

\* free-text carrier fields: no JSON, JSON without the version tag, a
\* tagged descriptor
TextNotJson == <<"N","o","t"," ","J","S","O","N"," ","d","a","t","a">>

TextUntagged == <<"{","\"","n","m","\"",":","\"","T","e","s","t"," ","P","r","o","d","u","c","t","\"","}">>

TextDescriptor == <<"{","\"","v","s","\"",":","1",",","\"","n","m","\"",":","\"","T","e","s","t"," ","P","r","o","d","u","c","t","\"","}">>

CarrierTexts == {TextNotJson, TextUntagged, TextDescriptor}

\* transactions the ledger may return for id: confirmed ones with and
\* without a message attachment, and a pending one, which has no block yet
\* (no blockTimestamp, no confirmations)
TransactionsFor(id) ==
  LET confirmed == [transaction |-> id, senderPublicKey |-> PublicKeyHex,
                    sender |-> KnownAccountId, senderRS |-> KnownAccountRS,
                    blockTimestamp |-> 100000, height |-> 123456, confirmations |-> 10]
      pending == [transaction |-> id, senderPublicKey |-> PublicKeyHex,
                  sender |-> KnownAccountId, senderRS |-> KnownAccountRS]
  IN {confirmed, pending}
     \cup {confirmed @@ [attachment |-> [message |-> t, messageIsText |-> TRUE]] : t \in CarrierTexts}
     \cup {pending @@ [attachment |-> [message |-> TextNotJson, messageIsText |-> TRUE]]}
     \cup {confirmed @@ [attachment |-> [message |-> TextDescriptor, messageIsText |-> FALSE]]}

\* the account behind an address or a numeric id, with or without a public
\* key and a description
AccountsFor(id) ==
  LET base == IF IsDigits(id, 1, MaxIdDigits)
              THEN [account |-> id, accountRS |-> KnownAccountRS]
              ELSE [account |-> KnownAccountId, accountRS |-> id]
  IN {base, base @@ [publicKey |-> PublicKeyHex]}
     \cup {base @@ [publicKey |-> PublicKeyHex, name |-> <<"o","h","a","g","e","r">>, description |-> t] :
             t \in CarrierTexts}

\* the alias registered under a name
AliasesFor(name) ==
  LET base == [alias |-> KnownAliasId, aliasName |-> name, account |-> KnownAccountId,
               accountRS |-> KnownAccountRS, timestamp |-> 240000000]
  IN {base} \cup {base @@ [aliasURI |-> t] : t \in CarrierTexts}

ContractsFor(id) ==
  LET base == [at |-> id, atRS |-> KnownContractRS, creator |-> KnownAccountId,
               creatorRS |-> KnownAccountRS, creationBlock |-> 1234567,
               name |-> <<"M","y","C","o","n","t","r","a","c","t">>]
  IN {base} \cup {base @@ [description |-> t] : t \in CarrierTexts}

AssetsFor(id) ==
  LET base == [asset |-> id, name |-> <<"T","O","K","E","N">>, account |-> KnownAccountId,
               accountRS |-> KnownAccountRS, decimals |-> 8,
               quantityQNT |-> <<"1","0","0","0","0","0","0","0","0","0","0","0","0","0","0">>]
  IN {base} \cup {base @@ [description |-> t] : t \in CarrierTexts}

EntitiesFor(req) ==
  CASE req.api = "getTransaction" -> TransactionsFor(req.arg)
    [] req.api = "getAccount" -> AccountsFor(req.arg)
    [] req.api = "getAliasByName" -> AliasesFor(req.arg)
    [] req.api = "getContract" -> ContractsFor(req.arg)
    [] req.api = "getAsset" -> AssetsFor(req.arg)

\* the "unknown entity" messages of the ledger, one per lookup
UnknownMessages ==
  { <<"U","n","k","n","o","w","n"," ","t","r","a","n","s","a","c","t","i","o","n">>, <<"U","n","k","n","o","w","n"," ","a","c","c","o","u","n","t">>, <<"U","n","k","n","o","w","n"," ","a","l","i","a","s">>, <<"U","n","k","n","o","w","n"," ","A","T">>,
    <<"U","n","k","n","o","w","n"," ","a","s","s","e","t">> }

\* what a lookup can fail with: an unknown-entity Error (bare or with the
\* node's error code appended), any other Error, or a value that is not an
\* Error
Failures ==
  {Error(m) : m \in UnknownMessages}
  \cup {Error(m \o <<" ","(","C","o","d","e",":"," ","5",")">>) : m \in UnknownMessages}
  \cup {Error(<<"N","e","t","w","o","r","k"," ","t","i","m","e","o","u","t">>), Error(<<"u","n","k","n","o","w","n"," ","t","r","a","n","s","a","c","t","i","o","n">>),
        NonError(<<"N","e","t","w","o","r","k"," ","t","i","m","e","o","u","t">>), NonError(<<"U","n","k","n","o","w","n"," ","t","r","a","n","s","a","c","t","i","o","n">>)}
  \cup {Error(toLowerCase(m)) : m \in UnknownMessages}
  \cup {NonError(m) : m \in UnknownMessages}

(***************************************************************************)
(* SignumDidResolver (src/src/resolver/did-resolver.ts)                    *)
(***************************************************************************)
CONTENT_TYPE == "application/did+ld+json"

\* createErrorResult, leaving an empty document in place of null
createErrorResult_emptyDocument(error, message) ==
  [didResolutionMetadata |-> [error |-> error, message |-> message],
   didDocument |-> EmptyObject,
   didDocumentMetadata |-> EmptyObject]

\* createErrorResult
createErrorResult(error, message) ==
  [didResolutionMetadata |-> [error |-> error, message |-> message],
   didDocument |-> Null,
   didDocumentMetadata |-> EmptyObject]

\* the success result every handler returns after its build
ResolvedResult(built) ==
  [didResolutionMetadata |-> [contentType |-> CONTENT_TYPE],
   didDocument |-> built.didDocument,
   didDocumentMetadata |-> built.didDocumentMetadata]

Absent == [present |-> FALSE]

\* src44.DescriptorData.parse(text, false): the descriptor of a JSON object
\* carrying the version tag vs = 1; it throws on any other text
DescriptorData_parse(text) ==
  IF /\ Len(text) >= 2 /\ text[1] = "{" /\ text[Len(text)] = "}"
     /\ includes(text, <<"\"","v","s","\"",":","1">>)
  THEN [ok |-> TRUE, raw |-> [vs |-> 1, json |-> text]]
  ELSE [ok |-> FALSE, exc |-> Error(<<"I","n","v","a","l","i","d"," ","S","R","C","4","4">>)]

\* getSrc44Data: the descriptor, or undefined when parsing throws
getSrc44Data(attachment) ==
  LET d == DescriptorData_parse(attachment)
  IN IF d.ok THEN [present |-> TRUE, raw |-> d.raw] ELSE Absent

\* the descriptor a handler extracts from carrier field f of entity e
Src44Of(e, f) == IF Truthy(e, f) THEN getSrc44Data(e[f]) ELSE Absent

\* the catch block of a handler, comparing the whole message with the
\* marker instead of searching the marker in it
HandlerCatch_exactMessage(parsed, exc, marker, label) ==
  IF exc.isError /\ exc.message = marker
  THEN Return(createErrorResult("notFound", label \o <<" ">> \o parsed.identifier \o <<" ","n","o","t"," ","f","o","u","n","d">>))
  ELSE Throw(exc)

\* the catch block of a handler, taking the unknown-entity message of any
\* lookup for its own
HandlerCatch_anyUnknown(parsed, exc, marker, label) ==
  IF exc.isError /\ includes(exc.message, <<"U","n","k","n","o","w","n"," ">>)
  THEN Return(createErrorResult("notFound", label \o <<" ">> \o parsed.identifier \o <<" ","n","o","t"," ","f","o","u","n","d">>))
  ELSE Throw(exc)

\* the catch block of a handler: an Error whose message contains the
\* handler's marker becomes notFound, anything else is thrown on
HandlerCatch(parsed, exc, marker, label) ==
  IF exc.isError /\ includes(exc.message, marker)
  THEN Return(createErrorResult("notFound", label \o <<" ">> \o parsed.identifier \o <<" ","n","o","t"," ","f","o","u","n","d">>))
  ELSE Throw(exc)

\* what a handler does with its build: return the result, or catch
HandlerFinish(parsed, built, marker, label) ==
  IF built.ok THEN Return(ResolvedResult(built))
  ELSE HandlerCatch(parsed, built.exc, marker, label)

\* resolveTransaction, from the ledger's answer on
resolveTransaction(parsed, answer) ==
  LET marker == <<"U","n","k","n","o","w","n"," ","t","r","a","n","s","a","c","t","i","o","n">>
      label == <<"T","r","a","n","s","a","c","t","i","o","n">>
      tx == answer.entity
      src44 == IF Has(tx, "attachment") /\ Truthy(tx.attachment, "message")
                  /\ tx.attachment.messageIsText
               THEN getSrc44Data(tx.attachment.message) ELSE Absent
      txData == Pick(tx, "transaction", "transactionId")
                @@ Pick(tx, "senderPublicKey", "senderPublicKey")
                @@ Pick(tx, "sender", "senderId")
                @@ Pick(tx, "senderRS", "senderRS")
                @@ Pick(tx, "blockTimestamp", "blockTimestamp")
                @@ Pick(tx, "height", "blockHeight")
                @@ [confirmations |-> IF Has(tx, "confirmations") THEN tx.confirmations ELSE 0,
                    src44 |-> src44]
  IN IF answer.kind = "rejected" THEN HandlerCatch(parsed, answer.exc, marker, label)
     ELSE HandlerFinish(parsed, TransactionDidDocumentBuilder_build(parsed, txData),
                        marker, label)

\* resolveAccount, from the ledger's answer on
resolveAccount(parsed, answer) ==
  LET marker == <<"U","n","k","n","o","w","n"," ","a","c","c","o","u","n","t">>
      label == <<"A","c","c","o","u","n","t">>
      account == answer.entity
      accountData == Pick(account, "account", "accountId")
                     @@ Pick(account, "accountRS", "accountRS")
                     @@ Pick(account, "publicKey", "publicKey")
                     @@ Pick(account, "name", "name")
                     @@ Pick(account, "description", "description")
                     @@ [src44 |-> Src44Of(account, "description")]
  IN IF answer.kind = "rejected" THEN HandlerCatch(parsed, answer.exc, marker, label)
     ELSE HandlerFinish(parsed, AccountDidDocumentBuilder_build(parsed, accountData),
                        marker, label)

\* the tld and the name resolveAlias takes from the identifier
AliasParts(identifier) ==
  LET parts == split(identifier)
  IN IF includes(identifier, <<":">>) /\ Len(parts) = 2
     THEN [tld |-> parts[1], aliasName |-> parts[2]]
     ELSE [tld |-> <<"s","i","g","n","u","m">>, aliasName |-> identifier]

\* resolveAlias, from the ledger's answer on
resolveAlias(parsed, answer) ==
  LET marker == <<"U","n","k","n","o","w","n"," ","a","l","i","a","s">>
      label == <<"A","l","i","a","s">>
      alias == answer.entity
      aliasData == Pick(alias, "alias", "aliasId")
                   @@ Pick(alias, "aliasName", "aliasName")
                   @@ [tld |-> AliasParts(parsed.identifier).tld]
                   @@ Pick(alias, "aliasURI", "aliasURI")
                   @@ Pick(alias, "account", "accountId")
                   @@ Pick(alias, "accountRS", "accountRS")
                   @@ Pick(alias, "timestamp", "timestamp")
                   @@ [src44 |-> Src44Of(alias, "aliasURI")]
  IN IF answer.kind = "rejected" THEN HandlerCatch(parsed, answer.exc, marker, label)
     ELSE HandlerFinish(parsed, AliasDidDocumentBuilder_build(parsed, aliasData),
                        marker, label)

\* resolveContract, from the ledger's answer on
resolveContract(parsed, answer) ==
  LET marker == <<"U","n","k","n","o","w","n"," ","A","T">>
      label == <<"C","o","n","t","r","a","c","t">>
      contract == answer.entity
      contractData == Pick(contract, "at", "at")
                      @@ Pick(contract, "atRS", "atRS")
                      @@ Pick(contract, "creator", "creator")
                      @@ Pick(contract, "creatorRS", "creatorRS")
                      @@ Pick(contract, "creationBlock", "creationBlock")
                      @@ [creationBlockTimestamp |-> 0]
                      @@ Pick(contract, "name", "name")
                      @@ Pick(contract, "description", "description")
                      @@ [src44 |-> Src44Of(contract, "description")]
  IN IF answer.kind = "rejected" THEN HandlerCatch(parsed, answer.exc, marker, label)
     ELSE HandlerFinish(parsed, ContractDidDocumentBuilder_build(parsed, contractData),
                        marker, label)

\* resolveToken left unimplemented
resolveToken_notImplemented(parsed, answer) ==
  Return(createErrorResult("methodNotSupported",
                           <<"D","I","D"," ","t","y","p","e"," ","'">> \o parsed.type \o <<"'"," ","n","o","t"," ","y","e","t"," ","i","m","p","l","e","m","e","n","t","e","d">>))

\* resolveToken, from the ledger's answer on
resolveToken(parsed, answer) ==
  LET marker == <<"U","n","k","n","o","w","n"," ","a","s","s","e","t">>
      label == <<"T","o","k","e","n">>
      asset == answer.entity
      tokenData == Pick(asset, "asset", "asset")
                   @@ Pick(asset, "name", "name")
                   @@ Pick(asset, "description", "description")
                   @@ Pick(asset, "account", "accountId")
                   @@ Pick(asset, "accountRS", "accountRS")
                   @@ Pick(asset, "decimals", "decimals")
                   @@ Pick(asset, "quantityQNT", "quantityQNT")
                   @@ [timestamp |-> 0, height |-> 0]
                   @@ [src44 |-> Src44Of(asset, "description")]
  IN IF answer.kind = "rejected" THEN HandlerCatch(parsed, answer.exc, marker, label)
     ELSE HandlerFinish(parsed, TokenDidDocumentBuilder_build(parsed, tokenData),
                        marker, label)

\* the lookup of each type, the alias one sending the whole identifier
RouteRequest_wholeIdentifier(parsed) ==
  CASE parsed.type = <<"t","x">> -> [api |-> "getTransaction", arg |-> parsed.identifier]
    [] parsed.type = <<"a","c","c">> -> [api |-> "getAccount", arg |-> parsed.identifier]
    [] parsed.type = <<"a","l","i","a","s">> ->
         [api |-> "getAliasByName", arg |-> parsed.identifier]
    [] parsed.type = <<"c","o","n","t","r","a","c","t">> -> [api |-> "getContract", arg |-> parsed.identifier]
    [] parsed.type = <<"t","o","k","e","n">> -> [api |-> "getAsset", arg |-> parsed.identifier]
    [] OTHER -> [api |-> "none", arg |-> <<>>]

\* the lookup each case of the switch in resolve starts (its handler's code
\* up to the await); "none" is the default case
RouteRequest(parsed) ==
  CASE parsed.type = <<"t","x">> -> [api |-> "getTransaction", arg |-> parsed.identifier]
    [] parsed.type = <<"a","c","c">> -> [api |-> "getAccount", arg |-> parsed.identifier]
    [] parsed.type = <<"a","l","i","a","s">> ->
         [api |-> "getAliasByName", arg |-> AliasParts(parsed.identifier).aliasName]
    [] parsed.type = <<"c","o","n","t","r","a","c","t">> -> [api |-> "getContract", arg |-> parsed.identifier]
    [] parsed.type = <<"t","o","k","e","n">> -> [api |-> "getAsset", arg |-> parsed.identifier]
    [] OTHER -> [api |-> "none", arg |-> <<>>]

\* the handler of the parsed type, resumed with the ledger's answer
Handler(parsed, answer) ==
  CASE parsed.type = <<"t","x">> -> resolveTransaction(parsed, answer)
    [] parsed.type = <<"a","c","c">> -> resolveAccount(parsed, answer)
    [] parsed.type = <<"a","l","i","a","s">> -> resolveAlias(parsed, answer)
    [] parsed.type = <<"c","o","n","t","r","a","c","t">> -> resolveContract(parsed, answer)
    [] parsed.type = <<"t","o","k","e","n">> -> resolveToken(parsed, answer)

\* the catch of the parse step, always answering the fallback text
ParseCatch_fixedMessage(exc) ==
  createErrorResult("invalidDid", <<"I","n","v","a","l","i","d"," ","D","I","D"," ","f","o","r","m","a","t">>)

\* the catch of the parse step of resolve
ParseCatch(exc) ==
  createErrorResult("invalidDid", IF exc.isError THEN exc.message ELSE <<"I","n","v","a","l","i","d"," ","D","I","D"," ","f","o","r","m","a","t">>)

\* the catch around the switch, converting Errors only
RouteCatch_errorsOnly(settled) ==
  IF settled.kind = "throw" /\ settled.exc.isError
  THEN Return(createErrorResult("internalError", settled.exc.message))
  ELSE settled

\* the catch around the switch, always answering the fallback text
RouteCatch_fixedMessage(settled) ==
  IF settled.kind = "throw"
  THEN Return(createErrorResult("internalError", <<"U","n","k","n","o","w","n"," ","e","r","r","o","r">>))
  ELSE settled

\* the catch around the switch of resolve: whatever a handler throws is
\* returned as internalError
RouteCatch(settled) ==
  IF settled.kind = "throw"
  THEN Return(createErrorResult("internalError",
                                IF settled.exc.isError THEN settled.exc.message
                                ELSE <<"U","n","k","n","o","w","n"," ","e","r","r","o","r">>))
  ELSE settled

\* the text a handler hands to getSrc44Data, if the entity carries one
CarrierText(type, e) ==
  CASE type = <<"t","x">> ->
         IF Has(e, "attachment") /\ Truthy(e.attachment, "message") /\ e.attachment.messageIsText
         THEN {e.attachment.message} ELSE {}
    [] type = <<"a","l","i","a","s">> -> IF Truthy(e, "aliasURI") THEN {e.aliasURI} ELSE {}
    [] OTHER -> IF Truthy(e, "description") THEN {e.description} ELSE {}

\* the steps of a handler that builds before it extracts
HandlerSteps_buildFirst(parsed, answer) ==
  IF answer.kind = "rejected" THEN <<>>
  ELSE <<[step |-> "build"]>>
       \o (IF CarrierText(parsed.type, answer.entity) # {} THEN <<[step |-> "extract"]>> ELSE <<>>)

\* the steps a handler takes once the ledger has answered: an extraction
\* attempt when the entity carries a text, then the build
HandlerSteps(parsed, answer) ==
  IF answer.kind = "rejected" THEN <<>>
  ELSE (IF CarrierText(parsed.type, answer.entity) # {} THEN <<[step |-> "extract"]>> ELSE <<>>)
       \o <<[step |-> "build"]>>

(***************************************************************************)
(* HTTP binding (src/unnamed/part_000: the serverless function)            *)
(***************************************************************************)
HexDigit == Digit \cup {"a", "b", "c", "d", "e", "f", "A", "B", "C", "D", "E", "F"}

HexValue(c) ==
  CASE c \in Digit -> CHOOSE v \in 0..9 : <<"0", "1", "2", "3", "4", "5", "6", "7", "8", "9">>[v + 1] = c
    [] c \in {"a", "A"} -> 10
    [] c \in {"b", "B"} -> 11
    [] c \in {"c", "C"} -> 12
    [] c \in {"d", "D"} -> 13
    [] c \in {"e", "E"} -> 14
    [] c \in {"f", "F"} -> 15

\* the printable ASCII characters, from code 32 on (code 96 is written out)
PrintableAscii ==
  <<
     " ", "!", "\"", "#", "$", "%", "&", "'", "(", ")", "*", "+", ",", "-", ".", "/",
     "0", "1", "2", "3", "4", "5", "6", "7", "8", "9", ":", ";", "<", "=", ">", "?",
     "@", "A", "B", "C", "D", "E", "F", "G", "H", "I", "J", "K", "L", "M", "N", "O",
     "P", "Q", "R", "S", "T", "U", "V", "W", "X", "Y", "Z", "[", "\\", "]", "^", "_",
     "Backquote", "a", "b", "c", "d", "e", "f", "g", "h", "i", "j", "k", "l", "m", "n", "o",
     "p", "q", "r", "s", "t", "u", "v", "w", "x", "y", "z", "{", "|", "}", "~" >>

\* the character of an ASCII code; control characters other than tab, line
\* feed and carriage return are one opaque character
CharOfCode(b) ==
  CASE b >= 32 /\ b <= 126 -> PrintableAscii[b - 31]
    [] b = 9 -> "\t"
    [] b = 10 -> "\n"
    [] b = 13 -> "\r"
    [] OTHER -> "Control"

\* is s[1..3] an escape %XY
IsEscape(s) == Len(s) >= 3 /\ s[1] = "%" /\ s[2] \in HexDigit /\ s[3] \in HexDigit

EscapeValue(s) == 16 * HexValue(s[2]) + HexValue(s[3])

\* the number of continuation bytes a UTF-8 lead byte announces (-1: the
\* byte cannot start a character)
Continuations(b) ==
  CASE b >= 194 /\ b <= 223 -> 1
    [] b >= 224 /\ b <= 239 -> 2
    [] b >= 240 /\ b <= 244 -> 3
    [] OTHER -> -1

URIError == Error(<<"U","R","I"," ","m","a","l","f","o","r","m","e","d">>)

\* decodeURIComponent: every %XY escape is replaced by the character it
\* encodes; a "%" that starts no escape, or escapes that are no UTF-8
\* character, make it throw URIError. A character outside ASCII is the one
\* opaque character "NonAscii".
RECURSIVE decodeURIComponent(_)
decodeURIComponent(s) ==
  IF s = <<>> THEN [ok |-> TRUE, value |-> <<>>]
  ELSE IF s[1] # "%"
    THEN LET rest == decodeURIComponent(Tail(s))
         IN IF rest.ok THEN [ok |-> TRUE, value |-> <<s[1]>> \o rest.value] ELSE rest
  ELSE IF ~IsEscape(s) THEN [ok |-> FALSE, exc |-> URIError]
  ELSE LET b == EscapeValue(s)
           n == Continuations(b)
           follows == \A k \in 1..n :
                        LET e == Drop(s, 3 * k)
                        IN IsEscape(e) /\ EscapeValue(e) >= 128 /\ EscapeValue(e) <= 191
       IN IF b < 128
          THEN LET rest == decodeURIComponent(Drop(s, 3))
               IN IF rest.ok THEN [ok |-> TRUE, value |-> <<CharOfCode(b)>> \o rest.value]
                  ELSE rest
          ELSE IF n < 0 \/ ~follows THEN [ok |-> FALSE, exc |-> URIError]
          ELSE LET rest == decodeURIComponent(Drop(s, 3 * (n + 1)))
               IN IF rest.ok THEN [ok |-> TRUE, value |-> <<"NonAscii">> \o rest.value]
                  ELSE rest

\* getHttpStatus, mapping notFound to 400 as well
getHttpStatus_notFound400(metadata) ==
  IF ~Has(metadata, "error") THEN 200
  ELSE CASE metadata.error = "invalidDid" -> 400
         [] metadata.error = "notFound" -> 400
         [] metadata.error = "methodNotSupported" -> 501
         [] metadata.error = "representationNotSupported" -> 406
         [] OTHER -> 500

\* getHttpStatus(result.didResolutionMetadata.error)
getHttpStatus(metadata) ==
  IF ~Has(metadata, "error") THEN 200
  ELSE CASE metadata.error = "invalidDid" -> 400
         [] metadata.error = "notFound" -> 404
         [] metadata.error = "methodNotSupported" -> 501
         [] metadata.error = "representationNotSupported" -> 406
         [] OTHER -> 500

\* getContentType(req.headers.accept)
getContentType(headers) ==
  IF ~Truthy(headers, "accept") THEN "application/did+ld+json"
  ELSE LET acceptHeader == headers.accept
       IN IF \/ includes(acceptHeader, <<"t","e","x","t","/","h","t","m","l">>)
             \/ acceptHeader = <<"*","/","*">>
             \/ startsWith(acceptHeader, <<"*","/">>)
          THEN "application/json"
          ELSE IF includes(acceptHeader, <<"a","p","p","l","i","c","a","t","i","o","n","/","d","i","d","+","l","d","+","j","s","o","n">>) THEN "application/did+ld+json"
          ELSE IF includes(acceptHeader, <<"a","p","p","l","i","c","a","t","i","o","n","/","d","i","d","+","j","s","o","n">>) THEN "application/did+json"
          ELSE IF includes(acceptHeader, <<"a","p","p","l","i","c","a","t","i","o","n","/","j","s","o","n">>) THEN "application/json"
          ELSE "application/did+ld+json"

NoHeaders == [h \in {} |-> ""]

\* res.status(status).json(body) after the setHeader calls that wrote headers
JsonResponse(status, headers, body) ==
  [status |-> status, headers |-> headers, body |-> body]

\* res.status(200).end()
EndResponse(status) == [status |-> status, headers |-> NoHeaders, body |-> Null]

\* the catch around the whole handler
OuterCatch(exc) ==
  JsonResponse(500, NoHeaders,
               [didResolutionMetadata |->
                  [error |-> "internalError",
                   message |-> IF exc.isError THEN exc.message ELSE <<"U","n","k","n","o","w","n"," ","e","r","r","o","r">>],
                didDocument |-> Null,
                didDocumentMetadata |-> EmptyObject])

\* the 400 responses the handler writes itself
InvalidDidResponse(message) ==
  JsonResponse(400, NoHeaders,
               [didResolutionMetadata |-> [error |-> "invalidDid", message |-> message],
                didDocument |-> Null,
                didDocumentMetadata |-> EmptyObject])

Responded(res) == [responded |-> TRUE, res |-> res]

\* the handler up to the call of resolve: either it has responded, or it
\* has created the ledger client of the parsed network and calls resolve(did)
HandlerStart(req) ==
  IF req.method = "OPTIONS" THEN Responded(EndResponse(200))
  ELSE IF req.method # "GET"
    THEN Responded(JsonResponse(405, NoHeaders,
                                [error |-> <<"M","e","t","h","o","d"," ","n","o","t"," ","a","l","l","o","w","e","d">>,
                                 message |-> <<"O","n","l","y"," ","G","E","T"," ","r","e","q","u","e","s","t","s"," ","a","r","e"," ","s","u","p","p","o","r","t","e","d">>]))
  ELSE IF ~Truthy(req.query, "did")
    THEN Responded(InvalidDidResponse(<<"D","I","D"," ","p","a","r","a","m","e","t","e","r"," ","i","s"," ","r","e","q","u","i","r","e","d">>))
  ELSE LET decoded == decodeURIComponent(req.query.did)
       IN IF ~decoded.ok THEN Responded(OuterCatch(decoded.exc))
          ELSE LET parsed == parse(decoded.value)
               IN IF ~parsed.ok THEN Responded(InvalidDidResponse(parsed.message))
                  ELSE [responded |-> FALSE, did |-> decoded.value, ledger |-> parsed.network]

\* the caching headers the handler sets after resolve
CacheHeaders(status, res) ==
  IF status = 200
  THEN IF Has(res.didDocumentMetadata, "immutable") /\ res.didDocumentMetadata.immutable
       THEN [cacheControl |-> "public, max-age=31536000, immutable",
             cdnCacheControl |-> "public, max-age=31536000"]
       ELSE [cacheControl |-> "public, max-age=300, s-maxage=60",
             cdnCacheControl |-> "public, max-age=60"]
  ELSE [cacheControl |-> "no-cache, no-store, must-revalidate"]

\* the handler from the settlement of resolve on
HandlerFinishResponse(req, settled) ==
  IF settled.kind = "throw" THEN OuterCatch(settled.exc)
  ELSE LET res == settled.result
           contentType == getContentType(req.headers)
           status == getHttpStatus(res.didResolutionMetadata)
       IN JsonResponse(status,
                       CacheHeaders(status, res) @@ [contentType |-> contentType],
                       res)

(***************************************************************************)
(* Inputs                                                                  *)
(***************************************************************************)
\* white space added on each side of an input, at most
MaxPad == 1

Pad(s, l, r) == Rep(" ", l) \o s \o Rep(" ", r)

DigitString == <<"1","2","3","4","5","6","7","8","9","0","1","2","3","4","5","6","7","8","9","0","1","2","3","4","5">>

DigitLengths == {9, 10, 17, 18, 20, 23, 24, 25}

NumericIds == {SubSeq(DigitString, 1, n) : n \in DigitLengths}

AddressIds ==
  { <<"S","-","9","K","9","L","-","4","C","B","5","-","8","8","Y","5","-","F","5","G","4","Z">>, <<"T","S","-","9","K","9","L","-","4","C","B","5","-","8","8","Y","5","-","F","5","G","4","Z">>, <<"s","-","9","k","9","l","-","4","c","b","5","-","8","8","y","5","-","f","5","g","4","z">>,
    <<"S","-","9","k","9","l","-","4","c","b","5","-","8","8","y","5","-","f","5","g","4","z">>, <<"S","-","9","K","9","L","-","4","C","B","5">> }

NameIds == { <<"o","h","a","g","e","r">>, <<"w","e","b","3",":","o","h","a","g","e","r">>, <<"a",":","b",":","c">>, <<"m","a","i","n","n","e","t">>, <<"n","o","t"," ","v","a","l","i","d","!">> }

\* alias identifiers at and just over the length bounds of tld and name
LongNameIds ==
  {Rep("t", n) \o <<":","o","h","a","g","e","r">> : n \in {MaxTldLength, MaxTldLength + 1}}
  \cup {Rep("n", n) : n \in {MaxAliasNameLength, MaxAliasNameLength + 1}}

PaddedIds ==
  {Pad(SubSeq(DigitString, 1, 20), l, r) : l \in 0..MaxPad, r \in 0..MaxPad}

\* the identifiers handed to build
Identifiers == NumericIds \cup AddressIds \cup NameIds \cup LongNameIds \cup PaddedIds

\* the networks of the SignumNetwork type
Networks == { <<"m","a","i","n","n","e","t">>, <<"t","e","s","t","n","e","t">> }

\* raw inputs that build does not produce
RawInputs ==
  { <<>>, <<"n","o","t","-","a","-","v","a","l","i","d","-","d","i","d">>, <<"d","i","d",":","e","t","h","r",":","0","x","1","2","3","4","5","6","7","8","9","0">>, <<"d","i","d",":","s","i","g","n","u","m",":","t","x",":">>,
    <<"d","i","d",":","s","i","g","n","u","m",":","n","f","t",":","1","2","3","4","5","6","7","8","9","0","1","2","3","4","5","6","7","8","9","0">>,
    <<"d","i","d",":","s","i","g","n","u","m",":","m","a","i","n","n","e","t",":","t","x",":","1","2","3","4","5","6","7","8","9","0","1","2","3","4","5","6","7","8","9","0">>,
    <<"d","i","d",":","s","i","g","n","u","m",":","m","a","i","n","n","e","t",":","a","c","c",":","1","6","4","5","7","7","4","8","5","7","2","2","9","9","0","6","2","8","2","5">>,
    <<"d","i","d",":","s","i","g","n","u","m",":","m","a","i","n","n","e","t",":","a","c","c",":","S","-","9","K","9","L","-","4","C","B","5","-","8","8","Y","5","-","F","5","G","4","Z">>,
    <<"d","i","d",":","s","i","g","n","u","m",":","s","t","a","g","e","n","e","t",":","t","x",":","1","2","3","4","5","6","7","8","9","0","1","2","3","4","5","6","7","8","9","0">>,
    <<"d","i","d",":","s","i","g","n","u","m",":","t","x",":","1","2","3","4","5","6","7","8","9","0","\n","1","2","3","4","5","6","7","8","9","0">>,
    <<"D","I","D",":","s","i","g","n","u","m",":","t","x",":","1","2","3","4","5","6","7","8","9","0","1","2","3","4","5","6","7","8","9","0">> }
  \cup {Pad(<<"d","i","d",":","s","i","g","n","u","m",":","t","x",":","1","2","3","4","5","6","7","8","9","0","1","2","3","4","5","6","7","8","9","0">>, l, r) : l \in 0..MaxPad, r \in 0..MaxPad}
  \cup {Rep(" ", n) : n \in 1..MaxPad}

(***************************************************************************)
(* Requests of the HTTP binding                                            *)
(***************************************************************************)
HttpDidParams ==
  { <<"d","i","d",":","s","i","g","n","u","m",":","t","x",":","1","2","3","4","5","6","7","8","9","0","1","2","3","4","5","6","7","8","9","0">>,
    <<"d","i","d","%","3","A","s","i","g","n","u","m","%","3","A","a","c","c","%","3","A","S","-","9","K","9","L","-","4","C","B","5","-","8","8","Y","5","-","F","5","G","4","Z">>,
    <<"d","i","d",":","s","i","g","n","u","m",":","t","e","s","t","n","e","t",":","a","l","i","a","s",":","o","h","a","g","e","r">>,
    <<"%","2","0","d","i","d",":","s","i","g","n","u","m",":","c","o","n","t","r","a","c","t",":","1","2","3","4","5","6","7","8","9","0","1","2","3","4","5","6","7","8","9","0">>,
    <<"n","o","t","-","a","-","v","a","l","i","d","-","d","i","d">>,
    <<"d","i","d",":","s","i","g","n","u","m",":","s","t","a","g","e","n","e","t",":","t","x",":","1","2","3","4","5","6","7","8","9","0","1","2","3","4","5","6","7","8","9","0">>,
    <<"d","i","d",":","s","i","g","n","u","m",":","t","x",":","%","z","z">>,
    <<"d","i","d",":","s","i","g","n","u","m",":","t","x",":","1","2","3","4","5","6","7","8","9","0","%">>,
    <<"d","i","d","%","3","A","s","i","g","n","u","m","%","3","A","t","x","%","3","A","1","2","3","4","5","6","7","8","9","0","%","E","0","%","A","4","%","A">>,
    <<"d","i","d",":","s","i","g","n","u","m",":","a","l","i","a","s",":","c","a","f","%","C","3","%","A","9">> }

AcceptHeaders ==
  { [h \in {} |-> <<>>], [accept |-> <<"*","/","*">>], [accept |-> <<"a","p","p","l","i","c","a","t","i","o","n","/","d","i","d","+","j","s","o","n">>] }

HttpRequests ==
  {[method |-> "GET", query |-> [did |-> d], headers |-> h] : d \in HttpDidParams, h \in AcceptHeaders}
  \cup {[method |-> "GET", query |-> [d \in {} |-> <<>>], headers |-> [accept |-> <<"a","p","p","l","i","c","a","t","i","o","n","/","j","s","o","n">>]],
        [method |-> "OPTIONS", query |-> [d \in {} |-> <<>>], headers |-> [h \in {} |-> <<>>]],
        [method |-> "POST", query |-> [did |-> <<"d","i","d",":","s","i","g","n","u","m",":","t","x",":","1","2","3","4","5","6","7","8","9","0","1","2","3","4","5","6","7","8","9","0">>],
         headers |-> [accept |-> <<"t","e","x","t","/","h","t","m","l",",","a","p","p","l","i","c","a","t","i","o","n","/","x","h","t","m","l","+","x","m","l">>]]}

(***************************************************************************)
(* State machine of one resolution                                         *)
(***************************************************************************)
NoArgs == [built |-> FALSE, type |-> <<>>, identifier |-> <<>>, network |-> <<>>]

NoRequest == [api |-> "none", arg |-> <<>>]

NoReply == [kind |-> "none"]

NoOutcome == [kind |-> "none"]

NoHttp == [stage |-> "none"]

NoCalls == <<>>

Init ==
  /\ pc = "idle"
  /\ args = NoArgs
  /\ did = <<>>
  /\ parsedDid = ParseFailure(<<>>)
  /\ request = NoRequest
  /\ reply = NoReply
  /\ outcome = NoOutcome
  /\ steps = <<>>
  /\ http = NoHttp
  /\ calls = NoCalls

\* a caller composes the DID with DidParser.build
Build(type, identifier, network) ==
  /\ pc = "idle" /\ http.stage = "none"
  /\ args' = [built |-> TRUE, type |-> type, identifier |-> identifier, network |-> network]
  /\ did' = build(type, identifier, network)
  /\ pc' = "ready"
  /\ UNCHANGED <<parsedDid, request, reply, outcome, steps, http, calls>>

\* a caller passes a raw string
Input(raw) ==
  /\ pc = "idle" /\ http.stage = "none"
  /\ args' = NoArgs
  /\ did' = raw
  /\ pc' = "ready"
  /\ UNCHANGED <<parsedDid, request, reply, outcome, steps, http, calls>>

\* the HTTP handler receives a request: it responds at once, or creates the
\* ledger client and calls resolve with the decoded DID
handler_receive(req) ==
  /\ pc = "idle" /\ http.stage = "none"
  /\ LET started == HandlerStart(req)
     IN IF started.responded
        THEN /\ http' = [stage |-> "responded", req |-> req, ledger |-> <<>>,
                         resolved |-> FALSE, res |-> started.res]
             /\ UNCHANGED <<pc, did>>
        ELSE /\ http' = [stage |-> "resolving", req |-> req, ledger |-> started.ledger]
             /\ did' = started.did
             /\ pc' = "ready"
  /\ UNCHANGED <<args, parsedDid, request, reply, outcome, steps, calls>>

\* resolve, parse step: the parser's failure is returned as invalidDid
resolve_parse ==
  /\ pc = "ready"
  /\ parsedDid' = parse(did)
  /\ steps' = <<[step |-> "parse"]>>
  /\ IF parsedDid'.ok
     THEN pc' = "route" /\ UNCHANGED outcome
     ELSE pc' = "done" /\ outcome' = Return(ParseCatch(Error(parsedDid'.message)))
  /\ UNCHANGED <<args, did, request, reply, http, calls>>

\* resolve, switch on the type: the handler starts its lookup and awaits
resolve_route ==
  /\ pc = "route"
  /\ request' = RouteRequest(parsedDid)
  /\ IF request'.api = "none"
     THEN /\ pc' = "done"
          /\ outcome' = Return(createErrorResult("invalidDid",
                                                 <<"U","n","k","n","o","w","n"," ","D","I","D"," ","t","y","p","e",":"," ">> \o parsedDid.type))
          /\ UNCHANGED steps
     ELSE /\ pc' = "await"
          /\ steps' = Append(steps, [step |-> "fetch", api |-> request'.api])
          /\ UNCHANGED outcome
  /\ UNCHANGED <<args, did, parsedDid, reply, http, calls>>

\* the ledger answers the lookup with an entity
Ledger_fulfil ==
  /\ pc = "await"
  /\ \E e \in EntitiesFor(request) : reply' = [kind |-> "fulfilled", entity |-> e]
  /\ pc' = "resume"
  /\ UNCHANGED <<args, did, parsedDid, request, outcome, steps, http, calls>>

\* the lookup fails
Ledger_reject ==
  /\ pc = "await"
  /\ \E f \in Failures : reply' = [kind |-> "rejected", exc |-> f]
  /\ pc' = "resume"
  /\ UNCHANGED <<args, did, parsedDid, request, outcome, steps, http, calls>>

\* the handler resumes: descriptor extraction, build, its catch block, and
\* the catch of resolve around it
resolve_resume ==
  /\ pc = "resume"
  /\ outcome' = RouteCatch(Handler(parsedDid, reply))
  /\ steps' = steps \o HandlerSteps(parsedDid, reply)
  /\ pc' = "done"
  /\ UNCHANGED <<args, did, parsedDid, request, reply, http, calls>>

\* the HTTP handler, resumed with the result of resolve, responds
handler_respond ==
  /\ pc = "done" /\ http.stage = "resolving"
  /\ http' = [stage |-> "responded", req |-> http.req, ledger |-> http.ledger,
              resolved |-> TRUE, res |-> HandlerFinishResponse(http.req, outcome)]
  /\ UNCHANGED <<pc, args, did, parsedDid, request, reply, outcome, steps, calls>>

\* the caller has the result (or the response); the next call starts from
\* scratch
resolve_return ==
  /\ \/ pc = "done" /\ http.stage = "none"
     \/ http.stage = "responded"
  /\ pc' = "idle"
  /\ args' = NoArgs
  /\ did' = <<>>
  /\ parsedDid' = ParseFailure(<<>>)
  /\ request' = NoRequest
  /\ reply' = NoReply
  /\ outcome' = NoOutcome
  /\ steps' = <<>>
  /\ http' = NoHttp
  /\ UNCHANGED calls

Next ==
  \/ \E t \in VALID_TYPES, i \in Identifiers, n \in Networks : Build(t, i, n)
  \/ \E raw \in RawInputs : Input(raw)
  \/ \E req \in HttpRequests : handler_receive(req)
  \/ resolve_parse
  \/ resolve_route
  \/ Ledger_fulfil
  \/ Ledger_reject
  \/ resolve_resume
  \/ handler_respond
  \/ resolve_return

Spec == Init /\ [][Next]_vars

(***************************************************************************)
(* Observables                                                             *)
(***************************************************************************)
Done == pc = "done"

Returned == Done /\ outcome.kind = "return"

result == outcome.result

HasError(r) == Has(r.didResolutionMetadata, "error")

ErrorOf(r) == r.didResolutionMetadata.error

MessageOf(r) == r.didResolutionMetadata.message
(***************************************************************************)
(* Concurrent calls of resolve on one resolver                             *)
(***************************************************************************)
NumCalls == 2

CallIds == 1..NumCalls

ConcurrentInputs ==
  { <<"d","i","d",":","s","i","g","n","u","m",":","a","c","c",":","S","-","9","K","9","L","-","4","C","B","5","-","8","8","Y","5","-","F","5","G","4","Z">>,
    <<"d","i","d",":","s","i","g","n","u","m",":","t","e","s","t","n","e","t",":","t","x",":","1","2","3","4","5","6","7","8","9","0","1","2","3","4","5","6","7","8","9","0">>,
    <<"d","i","d",":","s","i","g","n","u","m",":","a","l","i","a","s",":","w","e","b","3",":","o","h","a","g","e","r">>,
    <<"d","i","d",":","s","i","g","n","u","m",":","n","f","t",":","1","2","3","4","5","6","7","8","9","0","1","2","3","4","5","6","7","8","9","0">> }

ConcurrentFailures == {Error(<<"U","n","k","n","o","w","n"," ","a","c","c","o","u","n","t">>), NonError(<<"N","e","t","w","o","r","k"," ","t","i","m","e","o","u","t">>)}

\* what the ledger can settle a lookup with: the entities without a
\* descriptor text, or a failure
ConcurrentAnswers(req) ==
  {[kind |-> "fulfilled", entity |-> e] :
     e \in {x \in EntitiesFor(req) : ~Has(x, "attachment") /\ ~Has(x, "description")
                                      /\ ~Has(x, "aliasURI")}}
  \cup {[kind |-> "rejected", exc |-> f] : f \in ConcurrentFailures}

\* the local variables of one invocation of resolve and of its handler
NoFrame == [parsedDid |-> ParseFailure(<<>>), request |-> NoRequest]

IdleCall ==
  [pc |-> "idle", did |-> <<>>, frame |-> NoFrame, sent |-> NoRequest, reply |-> NoReply,
   outcome |-> NoOutcome]

\* the invocation whose local variables the steps of call c read and write,
\* were the parsed DID kept in a field of the resolver
FrameOf_resolverField(c) == 1

\* the invocation whose local variables the steps of call c read and write:
\* its own (parsedDid, tld, aliasName, src44 and the builder are locals)
FrameOf(c) == c

InitConcurrent ==
  /\ pc = "idle"
  /\ args = NoArgs
  /\ did = <<>>
  /\ parsedDid = ParseFailure(<<>>)
  /\ request = NoRequest
  /\ reply = NoReply
  /\ outcome = NoOutcome
  /\ steps = <<>>
  /\ http = NoHttp
  /\ calls = [c \in CallIds |-> IdleCall]

Sequential == <<pc, args, did, parsedDid, request, reply, outcome, steps, http>>

\* a caller calls resolve(raw)
call_resolve(c, raw) ==
  /\ calls[c].pc = "idle"
  /\ calls' = [calls EXCEPT ![c].did = raw, ![c].pc = "ready"]
  /\ UNCHANGED Sequential

\* call c parses its input
call_parse(c) ==
  /\ calls[c].pc = "ready"
  /\ LET parsed == parse(calls[c].did)
         written == [calls EXCEPT ![FrameOf(c)].frame.parsedDid = parsed]
     IN calls' = IF parsed.ok
                 THEN [written EXCEPT ![c].pc = "route"]
                 ELSE [written EXCEPT ![c].pc = "done",
                                      ![c].outcome = Return(ParseCatch(Error(parsed.message)))]
  /\ UNCHANGED Sequential

\* call c sends the lookup of its handler and is suspended
call_route(c) ==
  /\ calls[c].pc = "route"
  /\ LET req == RouteRequest(calls[FrameOf(c)].frame.parsedDid)
         written == [calls EXCEPT ![FrameOf(c)].frame.request = req]
     IN calls' = [written EXCEPT ![c].sent = req, ![c].pc = "await"]
  /\ UNCHANGED Sequential

\* the ledger settles the lookup of call c
call_settle(c) ==
  /\ calls[c].pc = "await"
  /\ \E answer \in ConcurrentAnswers(calls[c].sent) :
       calls' = [calls EXCEPT ![c].reply = answer, ![c].pc = "resume"]
  /\ UNCHANGED Sequential

\* call c resumes after its await and returns
call_resume(c) ==
  /\ calls[c].pc = "resume"
  /\ calls' = [calls EXCEPT
                 ![c].outcome = RouteCatch(Handler(calls[FrameOf(c)].frame.parsedDid,
                                                   calls[c].reply)),
                 ![c].pc = "done"]
  /\ UNCHANGED Sequential

\* the caller of call c has the result
call_return(c) ==
  /\ calls[c].pc = "done"
  /\ calls' = [calls EXCEPT ![c] = IdleCall]
  /\ UNCHANGED Sequential

NextConcurrent ==
  \E c \in CallIds :
    \/ \E raw \in ConcurrentInputs : call_resolve(c, raw)
    \/ call_parse(c)
    \/ call_route(c)
    \/ call_settle(c)
    \/ call_resume(c)
    \/ call_return(c)

SpecConcurrent == InitConcurrent /\ [][NextConcurrent]_vars


(***************************************************************************)
(* Terminal states of the resolution state machine                         *)
(***************************************************************************)
IsErrorResult(r, code) ==
  /\ HasError(r) /\ ErrorOf(r) = code
  /\ r.didDocument = Null

IsResolved(r) ==
  /\ ~HasError(r)
  /\ r.didDocument # Null
  /\ Has(r.didResolutionMetadata, "contentType")
  /\ r.didResolutionMetadata.contentType = "application/did+ld+json"

TerminalStates(r) ==
  {s \in {"INVALID_DID", "NOT_FOUND", "INTERNAL_ERROR", "RESOLVED"} :
     CASE s = "INVALID_DID" -> IsErrorResult(r, "invalidDid")
       [] s = "NOT_FOUND" -> IsErrorResult(r, "notFound")
       [] s = "INTERNAL_ERROR" -> IsErrorResult(r, "internalError")
       [] s = "RESOLVED" -> IsResolved(r)}

\* the ledger's "unknown entity" text and the entity name of each type
UnknownSignal(type) ==
  CASE type = <<"t","x">> -> <<"U","n","k","n","o","w","n"," ","t","r","a","n","s","a","c","t","i","o","n">>
    [] type = <<"a","c","c">> -> <<"U","n","k","n","o","w","n"," ","a","c","c","o","u","n","t">>
    [] type = <<"a","l","i","a","s">> -> <<"U","n","k","n","o","w","n"," ","a","l","i","a","s">>
    [] type = <<"c","o","n","t","r","a","c","t">> -> <<"U","n","k","n","o","w","n"," ","A","T">>
    [] type = <<"t","o","k","e","n">> -> <<"U","n","k","n","o","w","n"," ","a","s","s","e","t">>

EntityName(type) ==
  CASE type = <<"t","x">> -> <<"T","r","a","n","s","a","c","t","i","o","n">>
    [] type = <<"a","c","c">> -> <<"A","c","c","o","u","n","t">>
    [] type = <<"a","l","i","a","s">> -> <<"A","l","i","a","s">>
    [] type = <<"c","o","n","t","r","a","c","t">> -> <<"C","o","n","t","r","a","c","t">>
    [] type = <<"t","o","k","e","n">> -> <<"T","o","k","e","n">>

\* the fetch failed with the unknown-entity signal of the parsed type
FetchUnknown ==
  /\ reply.kind = "rejected"
  /\ reply.exc.isError
  /\ includes(reply.exc.message, UnknownSignal(parsedDid.type))

\* the fetch failed with any other failure
FetchOtherFailure == reply.kind = "rejected" /\ ~FetchUnknown

(***************************************************************************)
(* C1: the result of every resolve call has didDocument = null if and only *)
(* if didResolutionMetadata.error is set.                                  *)
(***************************************************************************)
C1_NullDocumentIffError ==
  Returned => ((result.didDocument = Null) <=> HasError(result))

C1_Witness ==
  /\ Returned /\ reply.kind = "fulfilled"
  /\ ~HasError(result) /\ result.didDocument # Null

C3_UnknownEntityIsNotFound ==
  (Done /\ FetchUnknown) =>
    /\ outcome.kind = "return"
    /\ IsErrorResult(result, "notFound")
    /\ MessageOf(result) =
         EntityName(parsedDid.type) \o <<" ">> \o parsedDid.identifier \o <<" ","n","o","t"," ","f","o","u","n","d">>

C3_Witness ==
  /\ Returned /\ FetchUnknown
  /\ parsedDid.type = <<"a","l","i","a","s">> /\ parsedDid.identifier = <<"w","e","b","3",":","o","h","a","g","e","r">>
  /\ MessageOf(result) = <<"A","l","i","a","s"," ","w","e","b","3",":","o","h","a","g","e","r"," ","n","o","t"," ","f","o","u","n","d">>

(***************************************************************************)
(* C4 as stated: for each type, a fetch that fails with anything but the   *)
(* type's unknown-entity signal ends in internalError with a null document *)
(* and a message equal to the failure's description.                       *)
(***************************************************************************)
C4_Original_MessageIsFailureDescription ==
  (Done /\ FetchOtherFailure) =>
    /\ outcome.kind = "return"
    /\ IsErrorResult(result, "internalError")
    /\ MessageOf(result) = reply.exc.message

(***************************************************************************)
(* C4 amended: such a fetch ends in internalError with a null document,    *)
(* nothing is re-thrown, and the message is the failure's message when the *)
(* failure is an Error and the fixed text "Unknown error" when it is any   *)
(* other thrown value.                                                     *)
(***************************************************************************)
C4_OtherFailureIsInternalError ==
  (Done /\ FetchOtherFailure) =>
    /\ outcome.kind = "return"
    /\ IsErrorResult(result, "internalError")
    /\ MessageOf(result) =
         IF reply.exc.isError THEN reply.exc.message ELSE <<"U","n","k","n","o","w","n"," ","e","r","r","o","r">>

C4_Witness ==
  /\ Returned /\ FetchOtherFailure
  /\ reply.exc = Error(<<"N","e","t","w","o","r","k"," ","t","i","m","e","o","u","t">>)
  /\ MessageOf(result) = <<"N","e","t","w","o","r","k"," ","t","i","m","e","o","u","t">>

(***************************************************************************)
(* C5: for every raw input the parser rejects, resolve returns invalidDid  *)
(* with a null document and the parser's failure reason as message.        *)
(***************************************************************************)
C5_ParseFailureIsInvalidDid ==
  (Done /\ ~parse(did).ok) =>
    /\ outcome.kind = "return"
    /\ IsErrorResult(result, "invalidDid")
    /\ MessageOf(result) = parse(did).message

C5_Witness ==
  /\ Returned /\ ~parse(did).ok
  /\ did = <<"d","i","d",":","e","t","h","r",":","0","x","1","2","3","4","5","6","7","8","9","0">>
  /\ IsErrorResult(result, "invalidDid")

(***************************************************************************)
(* C6: for each type, whenever the input parses and the ledger fetch       *)
(* succeeds, the build succeeds and resolve returns the RESOLVED result:   *)
(* no error, a document, its metadata and the DID+JSON-LD content type.    *)
(***************************************************************************)
C6_FetchSuccessIsResolved ==
  (Done /\ parsedDid.ok /\ reply.kind = "fulfilled") =>
    /\ outcome.kind = "return"
    /\ IsResolved(result)
    /\ Has(result.didDocumentMetadata, "immutable")

C8_ImmutableByType ==
  (Returned /\ ~HasError(result)) =>
    /\ Has(result.didDocumentMetadata, "immutable")
    /\ result.didDocumentMetadata.immutable = (parsedDid.type \in { <<"t","x">>, <<"t","o","k","e","n">> })

C8_Witness ==
  /\ Returned /\ ~HasError(result)
  /\ parsedDid.type = <<"c","o","n","t","r","a","c","t">>
  /\ Has(reply.entity, "description")
  /\ result.didDocumentMetadata.immutable = FALSE

Parsed == pc \notin {"idle", "ready"}

InputMatch == MatchDidRegex(trim(did))

InputType == InputMatch.type

InputIdentifier == InputMatch.identifier

\* the input has the shape of a DID and names no network or a valid one
WellFormedInput ==
  /\ Parsed /\ InputMatch.matched
  /\ InputMatch.network = <<>> \/ InputMatch.network \in VALID_NETWORKS

HasWhiteSpace(s) == \E i \in 1..Len(s) : s[i] \in WhiteSpace

(***************************************************************************)
(* C11: parse trims the white space around the whole input before          *)
(* matching, and rejects every input whose trimmed string still contains a *)
(* white space character, directly after the type segment included.        *)
(***************************************************************************)
C11_InternalWhitespaceRejected ==
  Parsed =>
    /\ parsedDid.ok => parsedDid.did = trim(did)
    /\ HasWhiteSpace(trim(did)) => ~parsedDid.ok

(***************************************************************************)
(* C12: for the types tx, contract and token, parse accepts the identifier *)
(* if and only if it is purely numeric with 10 to 24 digits, and any other *)
(* identifier fails with a message mentioning "18-23 digit".               *)
(***************************************************************************)
C12_NumericIdentifierOnly ==
  (WellFormedInput /\ InputType \in { <<"t","x">>, <<"c","o","n","t","r","a","c","t">>, <<"t","o","k","e","n">> }) =>
    /\ parsedDid.ok <=> IsDigits(InputIdentifier, 10, 24)
    /\ ~parsedDid.ok => includes(parsedDid.message, <<"1","8","-","2","3"," ","d","i","g","i","t">>)

(***************************************************************************)
(* C13: for the type acc, parse accepts the identifier if and only if it   *)
(* is purely numeric with 18 to 23 digits or an address                    *)
(* [T]S-XXXX-XXXX-XXXX-XXXXX whose segments are letters of either case or  *)
(* digits.                                                                 *)
(***************************************************************************)
C13_AccountIdentifier ==
  (WellFormedInput /\ InputType = <<"a","c","c">>) =>
    LET b == IF startsWith(InputIdentifier, <<"T">>) THEN Drop(InputIdentifier, 1)
             ELSE InputIdentifier
        seg(from, n) == AllIn(SubSeq(b, from, from + n - 1), Upper \cup Lower \cup Digit)
        address == /\ Len(b) = 22
                   /\ SubSeq(b, 1, 2) = <<"S","-">>
                   /\ seg(3, 4) /\ b[7] = "-"
                   /\ seg(8, 4) /\ b[12] = "-"
                   /\ seg(13, 4) /\ b[17] = "-"
                   /\ seg(18, 5)
    IN parsedDid.ok <=> (IsDigits(InputIdentifier, 18, 23) \/ address)

C15_ThreeNetworks ==
  (Parsed /\ InputMatch.matched /\ MatchesGrammar(InputType, InputIdentifier)) =>
    /\ parsedDid.ok
    /\ parsedDid.network = IF InputMatch.network = <<>> THEN <<"m","a","i","n","n","e","t">>
                           ELSE InputMatch.network

(***************************************************************************)
(* C16: alternate-form symmetry: for the same account on the same network, *)
(* the result of resolving by address and the result of resolving by       *)
(* numeric id each hold, as their only alsoKnownAs entry, the id of the    *)
(* other.                                                                  *)
(***************************************************************************)
C16_AlternateFormSymmetry ==
  (Returned /\ parsedDid.ok /\ parsedDid.type = <<"a","c","c">> /\ IsResolved(result)) =>
    LET account == reply.entity
        byAddress == \/ startsWith(parsedDid.identifier, <<"S","-">>)
                     \/ startsWith(parsedDid.identifier, <<"T","S","-">>)
        other == IF byAddress THEN account.account ELSE account.accountRS
        otherParsed == parse(build(<<"a","c","c">>, other, parsedDid.network))
        counterpart == RouteCatch(resolveAccount(otherParsed, reply)).result
    IN /\ otherParsed.ok
       /\ IsResolved(counterpart)
       /\ result.didDocument.alsoKnownAs = <<counterpart.didDocument.id>>
       /\ counterpart.didDocument.alsoKnownAs = <<result.didDocument.id>>

(***************************************************************************)
(* C17: in every builder, every DID constructed for controller or          *)
(* alsoKnownAs has the type directly after did:signum: when the parsed     *)
(* network is mainnet, and the parsed network there, followed by the type, *)
(* otherwise.                                                              *)
(***************************************************************************)
ConstructedDids(doc) ==
  (IF Has(doc, "controller") THEN {doc.controller} ELSE {})
  \cup (IF Has(doc, "alsoKnownAs")
        THEN {doc.alsoKnownAs[i] : i \in 1..Len(doc.alsoKnownAs)}
        ELSE {})

C17_NetworkSegmentOfConstructedDids ==
  (Returned /\ IsResolved(result)) =>
    \A d \in ConstructedDids(result.didDocument) :
      \E t \in { <<"a","c","c">>, <<"a","l","i","a","s">>, <<"c","o","n","t","r","a","c","t">> } :
        IF parsedDid.network = <<"m","a","i","n","n","e","t">>
        THEN startsWith(d, <<"d","i","d",":","s","i","g","n","u","m",":">> \o t \o <<":">>)
        ELSE startsWith(d, <<"d","i","d",":","s","i","g","n","u","m",":">> \o parsedDid.network \o <<":">> \o t \o <<":">>)

C17_Witness ==
  /\ Returned /\ IsResolved(result)
  /\ parsedDid.type = <<"c","o","n","t","r","a","c","t">> /\ parsedDid.network = <<"t","e","s","t","n","e","t">>
  /\ startsWith(result.didDocument.controller, <<"d","i","d",":","s","i","g","n","u","m",":","t","e","s","t","n","e","t",":","a","c","c",":">>)
  /\ startsWith(result.didDocument.alsoKnownAs[1], <<"d","i","d",":","s","i","g","n","u","m",":","t","e","s","t","n","e","t",":","c","o","n","t","r","a","c","t",":">>)

(***************************************************************************)
(* C18: descriptor extraction never causes a hard failure: whatever text   *)
(* the carrier field of the fetched entity holds, a failed extraction      *)
(* leaves the outcome RESOLVED with src44 absent, and didDocument.src44 is *)
(* present if and only if the extraction yielded a descriptor, which it    *)
(* then equals.                                                            *)
(***************************************************************************)
C18_ExtractionNeverFailsResolution ==
  (Returned /\ parsedDid.ok /\ reply.kind = "fulfilled") =>
    LET texts == CarrierText(parsedDid.type, reply.entity)
        doc == result.didDocument
    IN /\ \A t \in texts :
            ~DescriptorData_parse(t).ok => IsResolved(result) /\ ~Has(doc, "src44")
       /\ IsResolved(result) =>
            /\ Has(doc, "src44") <=> \E t \in texts : DescriptorData_parse(t).ok
            /\ \A t \in texts : DescriptorData_parse(t).ok => doc.src44 = DescriptorData_parse(t).raw

(***************************************************************************)
(* C19: for every resolved alias, alsoKnownAs is a singleton holding the   *)
(* alternate representation: the "<tld>:<name>" alias DID, with tld        *)
(* "signum", when the requested identifier is numeric, and the numeric-id  *)
(* alias DID when the requested identifier is name-based.                  *)
(***************************************************************************)
C19_AliasAlsoKnownAs ==
  (Returned /\ parsedDid.ok /\ parsedDid.type = <<"a","l","i","a","s">> /\ IsResolved(result)) =>
    LET alias == reply.entity
        network == IF parsedDid.network = <<"m","a","i","n","n","e","t">> THEN <<>> ELSE parsedDid.network \o <<":">>
        numeric == IsDigits(parsedDid.identifier, 18, 23)
    IN result.didDocument.alsoKnownAs =
         IF numeric
         THEN << <<"d","i","d",":","s","i","g","n","u","m",":">> \o network \o <<"a","l","i","a","s",":","s","i","g","n","u","m",":">> \o alias.aliasName >>
         ELSE << <<"d","i","d",":","s","i","g","n","u","m",":">> \o network \o <<"a","l","i","a","s",":">> \o alias.alias >>

C19_Witness ==
  /\ Returned /\ IsResolved(result)
  /\ parsedDid.type = <<"a","l","i","a","s">> /\ parsedDid.network = <<"t","e","s","t","n","e","t">>
  /\ parsedDid.identifier = <<"1","2","3","4","5","6","7","8","9","0","1","2","3","4","5","6","7","8","9","0">>
  /\ result.didDocument.alsoKnownAs =
       << <<"d","i","d",":","s","i","g","n","u","m",":","t","e","s","t","n","e","t",":","a","l","i","a","s",":","s","i","g","n","u","m",":">> \o reply.entity.aliasName >>

(***************************************************************************)
(* C20: for every resolved account, verificationMethod, authentication and *)
(* the security-suite context are all present if and only if the ledger    *)
(* returned a public key; then verificationMethod is a singleton with id   *)
(* "<did>#key-1" and controller the DID itself, and authentication holds   *)
(* exactly that id.                                                        *)
(***************************************************************************)
C20_AccountKeyMaterial ==
  (Returned /\ parsedDid.ok /\ parsedDid.type = <<"a","c","c">> /\ IsResolved(result)) =>
    LET doc == result.didDocument
        keyed == Has(reply.entity, "publicKey") /\ reply.entity.publicKey # <<>>
        suite == \E i \in 1..Len(doc.context) : doc.context[i] = ED25519_CONTEXT
    IN /\ Has(doc, "verificationMethod") <=> keyed
       /\ Has(doc, "authentication") <=> keyed
       /\ suite <=> keyed
       /\ keyed =>
            /\ Len(doc.verificationMethod) = 1
            /\ doc.verificationMethod[1].id = doc.id \o <<"#","k","e","y","-","1">>
            /\ doc.verificationMethod[1].controller = doc.id
            /\ doc.authentication = <<doc.verificationMethod[1].id>>

C20_Witness ==
  /\ Returned /\ IsResolved(result) /\ parsedDid.type = <<"a","c","c">>
  /\ Has(reply.entity, "publicKey")
  /\ result.didDocument.id = <<"d","i","d",":","s","i","g","n","u","m",":","a","c","c",":","S","-","9","K","9","L","-","4","C","B","5","-","8","8","Y","5","-","F","5","G","4","Z">>
  /\ result.didDocument.authentication = << <<"d","i","d",":","s","i","g","n","u","m",":","a","c","c",":","S","-","9","K","9","L","-","4","C","B","5","-","8","8","Y","5","-","F","5","G","4","Z","#","k","e","y","-","1">> >>

(***************************************************************************)
(* C21: for every successful resolution, didDocument.id is the canonical   *)
(* identifier of the request, build(type, identifier, network), whatever   *)
(* the textual form of the input (with or without an explicit mainnet      *)
(* segment).                                                               *)
(***************************************************************************)
C21_IdIsCanonical ==
  (Returned /\ parsedDid.ok /\ IsResolved(result)) =>
    result.didDocument.id = build(parsedDid.type, parsedDid.identifier, parsedDid.network)

(***************************************************************************)
(* The response of the HTTP handler                                        *)
(***************************************************************************)
HttpResponded == http.stage = "responded"

\* a GET request carrying a DID has been answered
DidRequestAnswered ==
  /\ HttpResponded
  /\ http.req.method = "GET" /\ Truthy(http.req.query, "did")

response == http.res

DIDResolutionErrors ==
  {"invalidDid", "notFound", "representationNotSupported", "methodNotSupported",
   "invalidDidDocument", "internalError"}

(***************************************************************************)
(* C22: for every GET request carrying a DID, the HTTP status of the       *)
(* response is the mapping of the error code in its body: invalidDid 400,  *)
(* notFound 404, methodNotSupported 501, representationNotSupported 406,   *)
(* any other error 500, no error 200.                                      *)
(***************************************************************************)
C22_StatusFollowsErrorCode ==
  LET StatusOf(metadata) ==
        IF ~Has(metadata, "error") THEN 200
        ELSE IF metadata.error = "invalidDid" THEN 400
        ELSE IF metadata.error = "notFound" THEN 404
        ELSE IF metadata.error = "methodNotSupported" THEN 501
        ELSE IF metadata.error = "representationNotSupported" THEN 406
        ELSE 500
  IN /\ DidRequestAnswered => response.status = StatusOf(response.body.didResolutionMetadata)
     /\ \A e \in DIDResolutionErrors : getHttpStatus([error |-> e]) = StatusOf([error |-> e])

C22_Witness ==
  /\ DidRequestAnswered /\ http.resolved
  /\ response.status = 404
  /\ response.body.didResolutionMetadata.error = "notFound"

(***************************************************************************)
(* C23: the cache directives follow the outcome on every response path: a  *)
(* response carrying a resolution error is marked not cacheable, a         *)
(* successful response for an immutable document is cacheable for one      *)
(* year, and one for a mutable document for 300 s (browser) and 60 s (CDN).*)
(***************************************************************************)
C23_CacheDirectivesFollowOutcome ==
  (HttpResponded /\ http.req.method = "GET") =>
    LET body == response.body
        headers == response.headers
    IN IF HasError(body)
       THEN /\ Has(headers, "cacheControl")
            /\ headers.cacheControl = "no-cache, no-store, must-revalidate"
       ELSE IF body.didDocumentMetadata.immutable
       THEN /\ headers.cacheControl = "public, max-age=31536000, immutable"
            /\ headers.cdnCacheControl = "public, max-age=31536000"
       ELSE /\ headers.cacheControl = "public, max-age=300, s-maxage=60"
            /\ headers.cdnCacheControl = "public, max-age=60"

(***************************************************************************)
(* C24: within one resolve call the steps are strictly sequential: exactly *)
(* one parse, then at most one ledger fetch (none if the parse failed, and *)
(* only the lookup of the parsed type), then at most one extraction        *)
(* attempt, then at most one build (none if the fetch failed).             *)
(***************************************************************************)
C24_SequentialSteps ==
  (pc \notin {"idle", "ready"}) =>
    LET rank(s) == CASE s.step = "parse" -> 1
                     [] s.step = "fetch" -> 2
                     [] s.step = "extract" -> 3
                     [] s.step = "build" -> 4
        taken(name) == \E i \in 1..Len(steps) : steps[i].step = name
        lookup == CASE parsedDid.type = <<"t","x">> -> "getTransaction"
                    [] parsedDid.type = <<"a","c","c">> -> "getAccount"
                    [] parsedDid.type = <<"a","l","i","a","s">> -> "getAliasByName"
                    [] parsedDid.type = <<"c","o","n","t","r","a","c","t">> -> "getContract"
                    [] parsedDid.type = <<"t","o","k","e","n">> -> "getAsset"
                    [] OTHER -> "none"
    IN /\ Len(steps) >= 1 /\ steps[1].step = "parse"
       /\ \A i, j \in 1..Len(steps) : i < j => rank(steps[i]) < rank(steps[j])
       /\ ~parsedDid.ok => Len(steps) = 1
       /\ \A i \in 1..Len(steps) : steps[i].step = "fetch" => steps[i].api = lookup
       /\ (taken("extract") \/ taken("build")) => (taken("fetch") /\ reply.kind = "fulfilled")
       /\ (Done /\ reply.kind = "fulfilled") => taken("build")

C24_Witness ==
  /\ Done /\ parsedDid.type = <<"a","c","c">>
  /\ steps = <<[step |-> "parse"], [step |-> "fetch", api |-> "getAccount"],
               [step |-> "extract"], [step |-> "build"]>>

\* the result of resolve(raw) run alone with the ledger's answer
SoloOutcome(raw, answer) ==
  LET parsed == parse(raw)
  IN IF ~parsed.ok THEN Return(ParseCatch(Error(parsed.message)))
     ELSE RouteCatch(Handler(parsed, answer))

(***************************************************************************)
(* C25: concurrent resolve calls on one resolver are independent: under    *)
(* every interleaving of their suspension points, the result of each call  *)
(* is the result it produces alone with the same input and the same ledger *)
(* answer, and the local state of a call is what the call itself wrote.    *)
(***************************************************************************)
C25_ConcurrentCallsIndependent ==
  \A c \in DOMAIN calls :
    /\ calls[c].pc \in {"route", "await", "resume", "done"} =>
         calls[c].frame.parsedDid = parse(calls[c].did)
    /\ calls[c].pc \in {"await", "resume"} =>
         calls[c].sent = RouteRequest(parse(calls[c].did))
    /\ calls[c].pc = "done" =>
         calls[c].outcome = SoloOutcome(calls[c].did, calls[c].reply)

\* an account call has returned its document while a transaction call that
\* was parsed in between is still suspended
C25_Witness ==
  /\ DOMAIN calls = CallIds
  /\ calls[1].pc = "done" /\ calls[1].did = <<"d","i","d",":","s","i","g","n","u","m",":","a","c","c",":","S","-","9","K","9","L","-","4","C","B","5","-","8","8","Y","5","-","F","5","G","4","Z">>
  /\ calls[1].outcome.kind = "return" /\ IsResolved(calls[1].outcome.result)
  /\ calls[2].pc = "await" /\ calls[2].did = <<"d","i","d",":","s","i","g","n","u","m",":","t","e","s","t","n","e","t",":","t","x",":","1","2","3","4","5","6","7","8","9","0","1","2","3","4","5","6","7","8","9","0">>

(***************************************************************************)
(* C26: on the alias path the identifier is decomposed before the fetch:   *)
(* with exactly one colon the prefix is the tld and the suffix the name,   *)
(* otherwise the whole identifier is the name and the tld is "signum"; the *)
(* ledger is queried with the name only.                                   *)
(***************************************************************************)
C26_AliasDecomposition ==
  (pc \in {"await", "resume", "done"} /\ parsedDid.ok /\ parsedDid.type = <<"a","l","i","a","s">>) =>
    LET id == parsedDid.identifier
        colons == {i \in 1..Len(id) : id[i] = ":"}
        at == CHOOSE i \in colons : TRUE
        expected == IF Cardinality(colons) = 1
                    THEN [tld |-> SubSeq(id, 1, at - 1), aliasName |-> SubSeq(id, at + 1, Len(id))]
                    ELSE [tld |-> <<"s","i","g","n","u","m">>, aliasName |-> id]
    IN /\ AliasParts(id) = expected
       /\ request = [api |-> "getAliasByName", arg |-> expected.aliasName]

C26_Witness ==
  /\ pc = "await" /\ parsedDid.type = <<"a","l","i","a","s">>
  /\ parsedDid.identifier = <<"w","e","b","3",":","o","h","a","g","e","r">>
  /\ request = [api |-> "getAliasByName", arg |-> <<"o","h","a","g","e","r">>]

(***************************************************************************)
(* C27: every DID a builder emits in alsoKnownAs is a valid identifier of  *)
(* the method: parse accepts it and returns the type and the network of    *)
(* the resolved DID.                                                       *)
(***************************************************************************)
C27_AlsoKnownAsParses ==
  (Returned /\ parsedDid.ok /\ IsResolved(result) /\ Has(result.didDocument, "alsoKnownAs")) =>
    \A i \in 1..Len(result.didDocument.alsoKnownAs) :
      LET other == parse(result.didDocument.alsoKnownAs[i])
      IN /\ other.ok
         /\ other.type = parsedDid.type
         /\ other.network = parsedDid.network

(***************************************************************************)
(* C28: for every successfully resolved alias DID whose identifier is      *)
(* numeric N, the ledger alias the document is built from is the alias     *)
(* with numeric id N, not an alias that has the string N as its name.      *)
(***************************************************************************)
C28_NumericAliasIsTheNamedEntity ==
  (Returned /\ parsedDid.ok /\ parsedDid.type = <<"a","l","i","a","s">> /\ IsResolved(result)
   /\ IsDigits(parsedDid.identifier, 18, 23)) =>
    reply.entity.alias = parsedDid.identifier

(***************************************************************************)
(* C29: not-found classification is per type: a fetch failure is notFound  *)
(* only when it is an Error whose message contains the marker of the type  *)
(* being resolved; a failure with another type's marker, a differently     *)
(* cased marker or a value that is not an Error is internalError.          *)
(***************************************************************************)
C29_NotFoundOnlyForOwnMarker ==
  (Returned /\ parsedDid.ok /\ reply.kind = "rejected") =>
    LET own == CASE parsedDid.type = <<"t","x">> -> <<"U","n","k","n","o","w","n"," ","t","r","a","n","s","a","c","t","i","o","n">>
                 [] parsedDid.type = <<"a","c","c">> -> <<"U","n","k","n","o","w","n"," ","a","c","c","o","u","n","t">>
                 [] parsedDid.type = <<"a","l","i","a","s">> -> <<"U","n","k","n","o","w","n"," ","a","l","i","a","s">>
                 [] parsedDid.type = <<"c","o","n","t","r","a","c","t">> -> <<"U","n","k","n","o","w","n"," ","A","T">>
                 [] parsedDid.type = <<"t","o","k","e","n">> -> <<"U","n","k","n","o","w","n"," ","a","s","s","e","t">>
        signalled == reply.exc.isError /\ includes(reply.exc.message, own)
    IN /\ IsErrorResult(result, "notFound") <=> signalled
       /\ ~signalled => IsErrorResult(result, "internalError")

\* a transaction lookup that failed with the marker of accounts
C29_Witness ==
  /\ Returned /\ parsedDid.type = <<"t","x">>
  /\ reply.kind = "rejected" /\ reply.exc = Error(<<"U","n","k","n","o","w","n"," ","a","c","c","o","u","n","t">>)
  /\ IsErrorResult(result, "internalError")

(***************************************************************************)
(* C30: for every GET request whose DID parameter is not a resolvable      *)
(* identifier, one that cannot be URL-decoded included, the handler        *)
(* responds with status 400 and error invalidDid without creating a ledger *)
(* client or calling resolve; status 500 is only produced after the DID    *)
(* has been parsed successfully.                                           *)
(***************************************************************************)
C30_UnresolvableDidIs400 ==
  DidRequestAnswered =>
    LET decoded == decodeURIComponent(http.req.query.did)
        resolvable == decoded.ok /\ parse(decoded.value).ok
    IN /\ ~resolvable =>
            /\ response.status = 400
            /\ response.body.didResolutionMetadata.error = "invalidDid"
            /\ http.ledger = <<>> /\ ~http.resolved
       /\ response.status = 500 => resolvable
====
